---- MODULE Spec2Model ----
(***************************************************************************)
(* Model of the RadiologyAI core: the condition classifier and the alert   *)
(* escalation engine (src/src/data_sources/pathway_document_processor.py), *)
(* and the file ingestion state machine (filesystem_manager.py,            *)
(* file_monitor.py).                                                       *)
(*                                                                         *)
(* Python strings whose characters matter (report text, condition names)   *)
(* are sequences of one-character strings, so that `in` is real substring  *)
(* search and lower() is a real case conversion.                           *)
(***************************************************************************)
EXTENDS Integers, Sequences, FiniteSets, TLC

VARIABLES
    findings,       \* extracted findings text handed to the classifier
    impression,     \* extracted impression text handed to the classifier
    analysis,       \* result dict of detect_critical_findings, or NoResult
    now,            \* datetime.now(), in seconds
    alerts,         \* rows of the alert stream with their escalation columns
    query,          \* the latest evaluation of check_escalation_needed, or NoQuery
    disk,           \* the data directory: files per directory, hash registry, metadata records
    today,          \* the day datetime.now() falls on, an index into Dates
    processed_count,\* FileMonitor.processed_count
    error_count,    \* FileMonitor.error_count
    born,           \* history: the bytes each file (inode) was submitted with
    last,           \* history: the latest filesystem or monitor call and what it returned
    condition_list, \* list of conditions handed to a recommendation function
    recommendation_list, \* what the recommendation function returned, or NoAdvice
    question,       \* query string handed to the question answerer
    search_results, \* what search_documents returned for the question, or NoSearch
    answer,         \* what answer_single_query returned for the question, or NoAnswer
    processed_files,\* RadiologyFileHandler.processed_files
    awaiting,       \* the calls of _process_new_file suspended in `await processor(...)`
    recorders,      \* the calls of record_processed_file that are under way
    handlers,       \* the tasks running RadiologyFileHandler._handle_file_event
    scan,           \* FileMonitor.start_monitoring: where it stands, the files it found, its observer
    history,        \* history: the pipeline steps each file went through, the callbacks each path started
    session,        \* st.session_state of the emergency dashboard
    acknowledgements \* history: when the Acknowledge button of each alert was pressed

classVars == <<findings, impression, analysis>>
escVars == <<now, alerts, query>>
fsVars == <<disk, today, processed_count, error_count, born, last>>
recVars == <<condition_list, recommendation_list>>
qaVars == <<question, search_results, answer>>
watchVars == <<handlers, scan, history>>
monVars == <<processed_files, awaiting, watchVars>>
regVars == <<recorders>>
dashVars == <<session, acknowledgements>>
otherVars == <<recVars, qaVars, monVars, regVars, dashVars>>
vars == <<findings, impression, analysis, now, alerts, query,
          disk, today, processed_count, error_count, born, last,
          condition_list, recommendation_list, question, search_results, answer,
          processed_files, awaiting, recorders,
          handlers, scan, history, session, acknowledgements>>

Min(a, b) == IF a <= b THEN a ELSE b

NoResult == [alert_level |-> "NONE"]
NoQuery == [alert |-> 0]

\* The state of each component before it has been given any input.
ClassifyIdle == findings = <<>> /\ impression = <<>> /\ analysis = NoResult
EscIdle == now = 0 /\ alerts = <<>> /\ query = NoQuery

\* strftime("%Y/%m/%d") of the days the model runs through.
Dates == <<"2024/01/01", "2024/01/02", "2024/01/03", "2024/01/04">>

MaxDay == 2          \* days the clock of the ingestion model passes through

Days == 1..Min(MaxDay, Len(Dates))

\* FilesystemManager.directories and the subdirectories it creates; a
\* directory is named by its area and its subdirectory.
Incoming == <<"incoming", "">>
Processing == <<"processing", "">>
Failed == <<"failed", "">>
ProcessedDir(day) == <<"processed", Dates[day]>>
AlertDir(level) == <<"alerts", level>>
alert_levels == <<"red", "orange", "yellow", "green">>

DirIds ==
    {Incoming, Processing, Failed}
        \cup {ProcessedDir(d) : d \in Days}
        \cup {AlertDir(alert_levels[k]) : k \in 1..Len(alert_levels)}

NoCall == [op |-> "none"]
NoAdvice == [function |-> "none"]
NoSearch == [status |-> "none"]
NoAnswer == [status |-> "none"]

MaxRecorders == 2    \* callers of record_processed_file running at the same time

Recorders == 1..MaxRecorders

NotRecording == [pc |-> "idle"]

RecIdle == condition_list = <<>> /\ recommendation_list = NoAdvice
QaIdle == question = <<>> /\ search_results = NoSearch /\ answer = NoAnswer
\* No task of the event handler exists, start_monitoring has not been called,
\* nothing has happened to any file.
WatchIdle ==
    /\ handlers = <<>>
    /\ scan = [pc |-> "stopped", pdf_files |-> <<>>, observer |-> "none"]
    /\ history = [pipeline |-> <<>>, callbacks |-> <<>>, completed |-> 0]
MonIdle == processed_files = {} /\ awaiting = {} /\ WatchIdle
RegIdle == recorders = [p \in Recorders |-> NotRecording]
\* EmergencyDashboard.__init__ on a new session.
DashIdle ==
    /\ session = [alerts |-> <<>>, last_refresh |-> 0]
    /\ acknowledgements = <<>>
OthersIdle == RecIdle /\ QaIdle /\ MonIdle /\ RegIdle /\ DashIdle

\* FilesystemManager.__init__ on a fresh data directory, FileMonitor.__init__.
FsIdle ==
    /\ disk = [files            |-> [d \in DirIds |-> <<>>],
               processed_hashes |-> <<>>,
               metadata         |-> <<>>,
               next_inode       |-> 1]
    /\ today = 1
    /\ processed_count = 0
    /\ error_count = 0
    /\ born = <<>>
    /\ last = NoCall


(***************************************************************************)
(* Condition classifier                                                    *)
(***************************************************************************)

\* PathwayDocumentProcessor._load_critical_conditions: the three tier tables.
red_alert_conditions ==
    << <<"p","u","l","m","o","n","a","r","y"," ","e","m","b","o","l","i","s","m">>,  \* 'pulmonary embolism'
       <<"a","o","r","t","i","c"," ","d","i","s","s","e","c","t","i","o","n">>,  \* 'aortic dissection'
       <<"h","e","m","o","r","r","h","a","g","e">>,  \* 'hemorrhage'
       <<"i","n","t","r","a","c","r","a","n","i","a","l"," ","b","l","e","e","d">>,  \* 'intracranial bleed'
       <<"t","e","n","s","i","o","n"," ","p","n","e","u","m","o","t","h","o","r","a","x">>,  \* 'tension pneumothorax'
       <<"b","o","w","e","l"," ","o","b","s","t","r","u","c","t","i","o","n">>,  \* 'bowel obstruction'
       <<"a","o","r","t","i","c"," ","a","n","e","u","r","y","s","m"," ","r","u","p","t","u","r","e">>,  \* 'aortic aneurysm rupture'
       <<"a","c","u","t","e"," ","s","t","r","o","k","e">>,  \* 'acute stroke'
       <<"m","y","o","c","a","r","d","i","a","l"," ","i","n","f","a","r","c","t","i","o","n">>,  \* 'myocardial infarction'
       <<"c","a","r","d","i","a","c"," ","t","a","m","p","o","n","a","d","e">>,  \* 'cardiac tamponade'
       <<"s","u","b","d","u","r","a","l"," ","h","e","m","a","t","o","m","a">>,  \* 'subdural hematoma'
       <<"e","p","i","d","u","r","a","l"," ","h","e","m","a","t","o","m","a">>,  \* 'epidural hematoma'
       <<"p","n","e","u","m","o","p","e","r","i","t","o","n","e","u","m">>   \* 'pneumoperitoneum'
    >>

orange_alert_conditions ==
    << <<"p","n","e","u","m","o","n","i","a">>,  \* 'pneumonia'
       <<"f","r","a","c","t","u","r","e">>,  \* 'fracture'
       <<"m","a","s","s">>,  \* 'mass'
       <<"p","n","e","u","m","o","t","h","o","r","a","x">>,  \* 'pneumothorax'
       <<"a","p","p","e","n","d","i","c","i","t","i","s">>,  \* 'appendicitis'
       <<"k","i","d","n","e","y"," ","s","t","o","n","e","s">>,  \* 'kidney stones'
       <<"g","a","l","l","b","l","a","d","d","e","r"," ","i","n","f","l","a","m","m","a","t","i","o","n">>,  \* 'gallbladder inflammation'
       <<"a","b","s","c","e","s","s">>,  \* 'abscess'
       <<"b","l","o","o","d"," ","c","l","o","t">>,  \* 'blood clot'
       <<"p","l","e","u","r","a","l"," ","e","f","f","u","s","i","o","n">>,  \* 'pleural effusion'
       <<"c","o","n","s","o","l","i","d","a","t","i","o","n">>,  \* 'consolidation'
       <<"n","o","d","u","l","e">>   \* 'nodule'
    >>

yellow_alert_conditions ==
    << <<"c","y","s","t">>,  \* 'cyst'
       <<"i","n","f","l","a","m","m","a","t","i","o","n">>,  \* 'inflammation'
       <<"c","h","r","o","n","i","c"," ","c","h","a","n","g","e","s">>,  \* 'chronic changes'
       <<"a","r","t","h","r","i","t","i","s">>,  \* 'arthritis'
       <<"m","i","n","o","r"," ","f","r","a","c","t","u","r","e">>,  \* 'minor fracture'
       <<"s","i","n","u","s"," ","i","n","f","e","c","t","i","o","n">>,  \* 'sinus infection'
       <<"m","u","s","c","l","e"," ","s","t","r","a","i","n">>,  \* 'muscle strain'
       <<"e","d","e","m","a">>   \* 'edema'
    >>

critical_conditions_db ==
    [red_alert_conditions    |-> red_alert_conditions,
     orange_alert_conditions |-> orange_alert_conditions,
     yellow_alert_conditions |-> yellow_alert_conditions]

\* str.lower() on one character: upper-case ASCII letters map to lower case,
\* every other character is kept.
UpperCase ==
    <<"A","B","C","D","E","F","G","H","I","J","K","L","M",
      "N","O","P","Q","R","S","T","U","V","W","X","Y","Z">>

LowerCase ==
    <<"a","b","c","d","e","f","g","h","i","j","k","l","m",
      "n","o","p","q","r","s","t","u","v","w","x","y","z">>

LowerChar(c) ==
    IF \E k \in 1..Len(UpperCase) : UpperCase[k] = c
    THEN LowerCase[CHOOSE k \in 1..Len(UpperCase) : UpperCase[k] = c]
    ELSE c

\* str.lower()
Lower(s) == [k \in 1..Len(s) |-> LowerChar(s[k])]

\* Python `needle in haystack` for strings: contiguous substring search.
Contains(needle, haystack) ==
    \E k \in 1..(Len(haystack) - Len(needle) + 1) :
        SubSeq(haystack, k, k + Len(needle) - 1) = needle

\* One `for condition in conditions_db[...]` loop of detect_critical_findings:
\* every matching condition sets the level and score and is appended.
RECURSIVE ScanTier(_, _, _, _, _, _)
ScanTier(result, conditions, k, combined_text, level, score) ==
    IF k > Len(conditions) THEN result
    ELSE LET condition == conditions[k]
             next == IF Contains(Lower(condition), combined_text)
                     THEN [result EXCEPT !.alert_level = level,
                                         !.critical_conditions = Append(@, condition),
                                         !.severity_score = score]
                     ELSE result
         IN ScanTier(next, conditions, k + 1, combined_text, level, score)

\* Mutant: the ORANGE loop is not guarded by `alert_level != "RED"`.
detect_critical_findings_unguarded(f, i, conditions_db) ==
    LET result == [alert_level |-> "GREEN", critical_conditions |-> <<>>,
                   severity_score |-> 0, confidence |-> 0]
        combined_text == Lower(f \o <<" ">> \o i)
        r1 == ScanTier(result, conditions_db.red_alert_conditions, 1, combined_text, "RED", 10)
        r2 == ScanTier(r1, conditions_db.orange_alert_conditions, 1, combined_text, "ORANGE", 6)
        r3 == IF r2.alert_level \notin {"RED", "ORANGE"}
              THEN ScanTier(r2, conditions_db.yellow_alert_conditions, 1, combined_text, "YELLOW", 3)
              ELSE r2
    IN  IF r3.critical_conditions # <<>>
        THEN [r3 EXCEPT !.confidence = Min(Len(r3.critical_conditions) * 3, 10)]
        ELSE r3

\* Mutant: the YELLOW loop is guarded by `alert_level != "RED"` only, so a
\* report with ORANGE matches also collects the YELLOW ones.
detect_critical_findings_yellow_leak(f, i, conditions_db) ==
    LET result == [alert_level |-> "GREEN", critical_conditions |-> <<>>,
                   severity_score |-> 0, confidence |-> 0]
        combined_text == Lower(f \o <<" ">> \o i)
        r1 == ScanTier(result, conditions_db.red_alert_conditions, 1, combined_text, "RED", 10)
        r2 == IF r1.alert_level # "RED"
              THEN ScanTier(r1, conditions_db.orange_alert_conditions, 1, combined_text, "ORANGE", 6)
              ELSE r1
        r3 == IF r2.alert_level # "RED"
              THEN ScanTier(r2, conditions_db.yellow_alert_conditions, 1, combined_text, "YELLOW", 3)
              ELSE r2
    IN  IF r3.critical_conditions # <<>>
        THEN [r3 EXCEPT !.confidence = Min(Len(r3.critical_conditions) * 3, 10)]
        ELSE r3

\* Mutant: the YELLOW tier is scanned before the ORANGE one, which is only
\* scanned when nothing YELLOW matched.
detect_critical_findings_yellow_first(f, i, conditions_db) ==
    LET result == [alert_level |-> "GREEN", critical_conditions |-> <<>>,
                   severity_score |-> 0, confidence |-> 0]
        combined_text == Lower(f \o <<" ">> \o i)
        r1 == ScanTier(result, conditions_db.red_alert_conditions, 1, combined_text, "RED", 10)
        r2 == IF r1.alert_level # "RED"
              THEN ScanTier(r1, conditions_db.yellow_alert_conditions, 1, combined_text, "YELLOW", 3)
              ELSE r1
        r3 == IF r2.alert_level \notin {"RED", "YELLOW"}
              THEN ScanTier(r2, conditions_db.orange_alert_conditions, 1, combined_text, "ORANGE", 6)
              ELSE r2
    IN  IF r3.critical_conditions # <<>>
        THEN [r3 EXCEPT !.confidence = Min(Len(r3.critical_conditions) * 3, 10)]
        ELSE r3

\* detect_critical_findings(findings, impression, conditions_json).
\* confidence is kept in tenths: min(len * 0.3, 1.0) is Min(len * 3, 10).
detect_critical_findings(f, i, conditions_db) ==
    LET result == [alert_level |-> "GREEN", critical_conditions |-> <<>>,
                   severity_score |-> 0, confidence |-> 0]
        combined_text == Lower(f \o <<" ">> \o i)
        r1 == ScanTier(result, conditions_db.red_alert_conditions, 1, combined_text, "RED", 10)
        r2 == IF r1.alert_level # "RED"
              THEN ScanTier(r1, conditions_db.orange_alert_conditions, 1, combined_text, "ORANGE", 6)
              ELSE r1
        r3 == IF r2.alert_level \notin {"RED", "ORANGE"}
              THEN ScanTier(r2, conditions_db.yellow_alert_conditions, 1, combined_text, "YELLOW", 3)
              ELSE r2
    IN  IF r3.critical_conditions # <<>>
        THEN [r3 EXCEPT !.confidence = Min(Len(r3.critical_conditions) * 3, 10)]
        ELSE r3

\* Report texts the extraction step can hand to the classifier.
Phrases ==
    << <<>>,  \* ''
       <<"n","o","r","m","a","l"," ","s","t","u","d","y">>,  \* 'normal study'
       <<"P","u","l","m","o","n","a","r","y">>,  \* 'Pulmonary'
       <<"e","m","b","o","l","i","s","m">>,  \* 'embolism'
       <<"P","u","l","m","o","n","a","r","y"," ","E","m","b","o","l","i","s","m"," ","w","i","t","h"," ","p","n","e","u","m","o","n","i","a">>,  \* 'Pulmonary Embolism with pneumonia'
       <<"P","N","E","U","M","O","N","I","A">>,  \* 'PNEUMONIA'
       <<"t","e","n","s","i","o","n"," ","p","n","e","u","m","o","t","h","o","r","a","x">>,  \* 'tension pneumothorax'
       <<"m","i","n","o","r"," ","f","r","a","c","t","u","r","e">>,  \* 'minor fracture'
       <<"s","m","a","l","l"," ","c","y","s","t">>,  \* 'small cyst'
       <<"m","a","s","s","i","v","e"," ","h","e","m","o","r","r","h","a","g","e">>,  \* 'massive hemorrhage'
       <<"p","n","e","u","m","o","n","i","a"," ","a","n","d"," ","e","d","e","m","a">>,  \* 'pneumonia and edema'
       <<"N","o","d","u","l","e">>,  \* 'Nodule'
       <<"a","r","t","h","r","i","t","i","s">>,  \* 'arthritis'
       <<"n","o"," ","a","c","u","t","e"," ","d","i","s","e","a","s","e">>,  \* 'no acute disease'
       <<"A","c","u","t","e"," ","S","t","r","o","k","e">>,  \* 'Acute Stroke'
       <<"c","h","r","o","n","i","c"," ","c","h","a","n","g","e","s">>   \* 'chronic changes'
    >>

MaxPhrase == 14

ReportTexts == {Phrases[k] : k \in 1..Min(MaxPhrase, Len(Phrases))}

(***************************************************************************)
(* Specification of the classifier: a report is drawn, then classified.    *)
(***************************************************************************)

InitClassify ==
    /\ findings \in ReportTexts
    /\ impression \in ReportTexts
    /\ analysis = NoResult
    /\ EscIdle
    /\ FsIdle
    /\ OthersIdle

\* Step 3 of create_document_processing_pipeline: the UDF is applied to the
\* extracted findings and impression of one report.
Classify ==
    /\ analysis = NoResult
    /\ analysis' = detect_critical_findings(findings, impression, critical_conditions_db)
    /\ UNCHANGED <<findings, impression>>
    /\ UNCHANGED escVars
    /\ UNCHANGED fsVars
    /\ UNCHANGED otherVars

\* The next report of the stream arrives.
NextReport ==
    /\ analysis # NoResult
    /\ findings' \in ReportTexts
    /\ impression' \in ReportTexts
    /\ analysis' = NoResult
    /\ UNCHANGED escVars
    /\ UNCHANGED fsVars
    /\ UNCHANGED otherVars

NextClassify == Classify \/ NextReport

SpecClassify == InitClassify /\ [][NextClassify]_vars

\* The text the classifier searches.
CombinedText == Lower(findings \o <<" ">> \o impression)

\* Some condition of the table occurs in the text.
Occurs(conditions, text) ==
    \E k \in 1..Len(conditions) : Contains(Lower(conditions[k]), text)

\* The conditions of the table that occur in the text, in table order.
Occurring(conditions, text) ==
    SelectSeq(conditions, LAMBDA c : Contains(Lower(c), text))

TierTable(level) ==
    CASE level = "RED"    -> red_alert_conditions
      [] level = "ORANGE" -> orange_alert_conditions
      [] level = "YELLOW" -> yellow_alert_conditions
      [] OTHER            -> <<>>

\* C1: the classifier returns the highest tier (RED > ORANGE > YELLOW) that
\* has a condition occurring as a case-insensitive substring of the combined
\* text, and GREEN when no condition occurs; a RED match makes the report RED
\* whatever ORANGE or YELLOW conditions also occur.
C1_HighestTierWins ==
    analysis # NoResult =>
        analysis.alert_level =
            IF Occurs(red_alert_conditions, CombinedText) THEN "RED"
            ELSE IF Occurs(orange_alert_conditions, CombinedText) THEN "ORANGE"
            ELSE IF Occurs(yellow_alert_conditions, CombinedText) THEN "YELLOW"
            ELSE "GREEN"

\* A classified report that matches a RED condition together with an ORANGE one.
C1_Witness ==
    /\ analysis # NoResult
    /\ analysis.alert_level = "RED"
    /\ Occurs(red_alert_conditions, CombinedText)
    /\ Occurs(orange_alert_conditions, CombinedText)

\* C2: matched_conditions is exactly the conditions of the selected tier that
\* occur in the text, in table order; no condition of another tier is in it,
\* and it is empty exactly when the level is GREEN.
C2_MatchedConditionsOfSelectedTier ==
    analysis # NoResult =>
        /\ analysis.critical_conditions =
               Occurring(TierTable(analysis.alert_level), CombinedText)
        /\ (analysis.critical_conditions = <<>>) <=> (analysis.alert_level = "GREEN")

\* 'pneumonia' and 'pulmonary embolism' both occur; only the RED one is reported.
C2_Witness ==
    /\ analysis # NoResult
    /\ Contains(orange_alert_conditions[1], CombinedText)
    /\ Contains(red_alert_conditions[1], CombinedText)
    /\ analysis.critical_conditions = <<red_alert_conditions[1]>>

\* The conditions of the tiers above the given level.
HigherTiers(level) ==
    CASE level = "YELLOW" -> red_alert_conditions \o orange_alert_conditions
      [] level = "ORANGE" -> red_alert_conditions
      [] OTHER            -> <<>>

\* 'minor fracture' of the YELLOW table, which contains 'fracture' of the
\* ORANGE table.
minor_fracture == yellow_alert_conditions[5]

\* C30: no reported condition contains a condition of a higher tier as a
\* substring; in particular 'minor fracture' is never among the matched
\* conditions, and every text that contains it is classified ORANGE or RED.
C30_ShadowedConditionNeverReported ==
    analysis # NoResult =>
        /\ \A k \in 1..Len(analysis.critical_conditions) :
               ~Occurs(HigherTiers(analysis.alert_level),
                       Lower(analysis.critical_conditions[k]))
        /\ \A k \in 1..Len(analysis.critical_conditions) :
               analysis.critical_conditions[k] # minor_fracture
        /\ Contains(minor_fracture, CombinedText) =>
               analysis.alert_level \in {"ORANGE", "RED"}

\* A report that says 'minor fracture' and matches nothing RED was classified:
\* it is ORANGE and 'fracture' is reported.
C30_Witness ==
    /\ analysis # NoResult
    /\ Contains(minor_fracture, CombinedText)
    /\ ~Occurs(red_alert_conditions, CombinedText)
    /\ analysis.alert_level = "ORANGE"
    /\ analysis.critical_conditions[1] = orange_alert_conditions[2]

(***************************************************************************)
(* Alert / escalation engine                                               *)
(***************************************************************************)

AlertLevels == {"RED", "ORANGE", "YELLOW", "GREEN"}

MaxAlerts == 1       \* rows of the alert stream
MaxMinutes == 61     \* the clock runs this many minutes
MaxSkew == 1         \* seconds the clock may stand past a whole minute
MaxCreateAt == 1     \* alerts are created in the first seconds of the run

SecondsPerMinute == 60
SecondsPerHour == 3600

\* datetime.isoformat(): the clock value written out as its HH:MM:SS fields
\* (all times of the model fall on one day, the date part is left out).
isoformat(t) ==
    [hour   |-> t \div SecondsPerHour,
     minute |-> (t \div SecondsPerMinute) % 60,
     second |-> t % 60]

\* datetime.fromisoformat(): the fields read back into a clock value.
fromisoformat(ts) ==
    ts.hour * SecondsPerHour + ts.minute * SecondsPerMinute + ts.second

\* escalation_minutes of calculate_escalation_time.
escalation_minutes == [RED |-> 5, ORANGE |-> 15, YELLOW |-> 60]

\* escalation_thresholds of check_escalation_needed.
escalation_thresholds == [RED |-> 5, ORANGE |-> 15]

\* dict.get(key, default)
Get(dict, key, default) == IF key \in DOMAIN dict THEN dict[key] ELSE default

\* Mutant: the window is added as seconds, timedelta(seconds=minutes_to_add).
calculate_escalation_time_seconds(alert_level, timestamp) ==
    LET alert_time == fromisoformat(timestamp)
        minutes_to_add == Get(escalation_minutes, alert_level, 60)
    IN  isoformat(alert_time + minutes_to_add)

\* calculate_escalation_time(alert_level, timestamp)
calculate_escalation_time(alert_level, timestamp) ==
    LET alert_time == fromisoformat(timestamp)
        minutes_to_add == Get(escalation_minutes, alert_level, 60)
    IN  isoformat(alert_time + minutes_to_add * SecondsPerMinute)

\* Mutant: the boundary is excluded, time_elapsed > threshold.
check_escalation_needed_strict(alert_level, timestamp, current_time) ==
    IF alert_level \notin {"RED", "ORANGE"} THEN FALSE
    ELSE LET alert_time == fromisoformat(timestamp)
             elapsed_seconds == current_time - alert_time
             threshold == Get(escalation_thresholds, alert_level, 60)
         IN  elapsed_seconds > threshold * SecondsPerMinute

\* check_escalation_needed(alert_level, timestamp), evaluated when
\* datetime.now() is current_time.  time_elapsed is total_seconds() / 60, so
\* time_elapsed >= threshold is elapsed_seconds >= threshold * 60.
check_escalation_needed(alert_level, timestamp, current_time) ==
    IF alert_level \notin {"RED", "ORANGE"} THEN FALSE
    ELSE LET alert_time == fromisoformat(timestamp)
             elapsed_seconds == current_time - alert_time
             threshold == Get(escalation_thresholds, alert_level, 60)
         IN  elapsed_seconds >= threshold * SecondsPerMinute

InitEscalation ==
    /\ EscIdle
    /\ ClassifyIdle
    /\ FsIdle
    /\ OthersIdle

\* A row enters the alert stream (timestamp = now) and
\* create_alert_escalation_pipeline adds its escalation columns.
\* created_at keeps the clock value the timestamp was written from.
CreateAlert(level) ==
    /\ Len(alerts) < MaxAlerts
    /\ now <= MaxCreateAt
    /\ LET timestamp == isoformat(now)
       IN  /\ alerts' = Append(alerts,
                   [alert_level     |-> level,
                    timestamp       |-> timestamp,
                    created_at      |-> now,
                    escalation_time |-> calculate_escalation_time(level, timestamp),
                    acknowledged    |-> FALSE,
                    response_time   |-> -1])
           /\ query' = [alert        |-> Len(alerts) + 1,
                        at           |-> now,
                        acknowledged |-> FALSE,
                        result       |-> check_escalation_needed(level, timestamp, now)]
    /\ UNCHANGED now
    /\ UNCHANGED classVars
    /\ UNCHANGED fsVars
    /\ UNCHANGED otherVars

\* needs_escalation of a row is evaluated again at the current time.
QueryEscalation(a) ==
    /\ a \in 1..Len(alerts)
    /\ query' = [alert        |-> a,
                 at           |-> now,
                 acknowledged |-> alerts[a].acknowledged,
                 result       |-> check_escalation_needed(alerts[a].alert_level,
                                                          alerts[a].timestamp, now)]
    /\ UNCHANGED <<now, alerts>>
    /\ UNCHANGED classVars
    /\ UNCHANGED fsVars
    /\ UNCHANGED otherVars

\* The Acknowledge button of display_critical_alerts, shown for the RED
\* alerts that are not acknowledged; response_time is kept in seconds.
Acknowledge(a) ==
    /\ a \in 1..Len(alerts)
    /\ alerts[a].alert_level = "RED"
    /\ ~alerts[a].acknowledged
    /\ alerts' = [alerts EXCEPT ![a].acknowledged = TRUE,
                                ![a].response_time = now - fromisoformat(alerts[a].timestamp)]
    /\ query' = NoQuery
    /\ UNCHANGED now
    /\ UNCHANGED classVars
    /\ UNCHANGED fsVars
    /\ UNCHANGED otherVars

\* The clock moves on by a second.
TickSecond ==
    /\ now % SecondsPerMinute < MaxSkew
    /\ now' = now + 1
    /\ query' = NoQuery
    /\ UNCHANGED alerts
    /\ UNCHANGED classVars
    /\ UNCHANGED fsVars
    /\ UNCHANGED otherVars

\* The clock moves on by a minute.
TickMinute ==
    /\ now + SecondsPerMinute <= MaxMinutes * SecondsPerMinute + MaxSkew
    /\ now' = now + SecondsPerMinute
    /\ query' = NoQuery
    /\ UNCHANGED alerts
    /\ UNCHANGED classVars
    /\ UNCHANGED fsVars
    /\ UNCHANGED otherVars

NextEscalation ==
    \/ \E level \in AlertLevels : CreateAlert(level)
    \/ \E a \in 1..MaxAlerts : QueryEscalation(a)
    \/ \E a \in 1..MaxAlerts : Acknowledge(a)
    \/ TickSecond
    \/ TickMinute

SpecEscalation == InitEscalation /\ [][NextEscalation]_vars

\* Seconds between the creation of the queried alert and the query.
QueryElapsed == query.at - alerts[query.alert].created_at

\* C3: for an unacknowledged alert, needs_escalation at time now is true iff
\* the level is RED or ORANGE and now - created_at >= the tier's window
\* (5 minutes for RED, 15 for ORANGE), boundary included; for YELLOW and GREEN
\* it is false at every time.
C3_EscalationIffWindowElapsed ==
    (query # NoQuery /\ ~query.acknowledged) =>
        (query.result <=>
            \/ alerts[query.alert].alert_level = "RED" /\ QueryElapsed >= 5 * 60
            \/ alerts[query.alert].alert_level = "ORANGE" /\ QueryElapsed >= 15 * 60)

\* An unacknowledged RED alert queried exactly five minutes after creation.
C3_Witness ==
    /\ query # NoQuery
    /\ ~query.acknowledged
    /\ alerts[query.alert].alert_level = "RED"
    /\ QueryElapsed = 5 * 60
    /\ query.result

\* C4: once an alert has been acknowledged, needs_escalation is false for it
\* at every later query time.
C4_AcknowledgedNeverEscalates ==
    (query # NoQuery /\ query.acknowledged) => ~query.result

\* The deadline of an alert, in seconds on the clock.
Deadline(a) == fromisoformat(alerts[a].escalation_time)

\* A deadline that is a point in time.
IsFiniteDeadline(ts) == ts \in [hour : Nat, minute : 0..59, second : 0..59]

MinFileSize == 1024                \* validate_file: minimum 1KB
MaxFileSize == 52428800            \* validate_file: maximum 50 * 1024 * 1024

MaxFiles == 2        \* files submitted to incoming/ during a run
MaxBody == 2         \* distinct byte contents of well-formed reports
NumProcessors == 2   \* callbacks registered with add_file_processor

Bases == {"scan"}

FileName(base) == [base |-> base, counters |-> <<>>, suffix |-> ".pdf"]

IncomingNames == {FileName(b) : b \in Bases}

\* Bytes of the submitted files: well-formed reports of 2048 bytes and a
\* 500-byte file.
FileContents ==
    {[size_bytes |-> 2048, header |-> "%PDF", body |-> b] : b \in 1..MaxBody}
        \cup {[size_bytes |-> 500, header |-> "%PDF", body |-> 1]}

NoHash == <<>>
NoPath == [dir |-> <<"", "">>]

Path(dir, name) == [dir |-> dir, name |-> name]

\* Path.exists()
Exists(d, path) == path.name \in DOMAIN d.files[path.dir]

Entry(d, path) == d.files[path.dir][path.name]

Remove(listing, name) == [n \in DOMAIN listing \ {name} |-> listing[n]]

\* Mutant: the file is copied to dst and the source is left in place.
shutil_move_keeping_source(d, src, dst) ==
    [d EXCEPT !.files = [@ EXCEPT ![dst.dir] = (dst.name :> Entry(d, src)) @@ @]]

\* shutil.move(src, dst): the entry leaves src and is stored under dst,
\* replacing whatever dst held.
shutil_move(d, src, dst) ==
    LET entry == Entry(d, src)
        removed == [d.files EXCEPT ![src.dir] = Remove(@, src.name)]
    IN  [d EXCEPT !.files = [removed EXCEPT ![dst.dir] = (dst.name :> entry) @@ @]]

\* shutil.copy2(src, dst): dst becomes a new file with the bytes of src.
shutil_copy2(d, src, dst) ==
    LET copy == [data |-> Entry(d, src).data, inode |-> d.next_inode]
    IN  [d EXCEPT !.files = [@ EXCEPT ![dst.dir] = (dst.name :> copy) @@ @],
                  !.next_inode = @ + 1]

\* open(path, 'w') + json.dump: the file at path now holds data.
write_file(d, path, data) ==
    IF Exists(d, path)
    THEN [d EXCEPT !.files = [@ EXCEPT ![path.dir] =
                                 [@ EXCEPT ![path.name] = [data |-> data, inode |-> @.inode]]]]
    ELSE [d EXCEPT !.files = [@ EXCEPT ![path.dir] =
                                 (path.name :> [data |-> data, inode |-> d.next_inode]) @@ @],
                   !.next_inode = @ + 1]

\* Mutant: the target name is used as it is, the collision loop is missing.
unique_name_overwriting(listing, original, candidate, counter) == candidate

\* The `while path.exists()` loop of the three move functions: the first of
\* name, stem_1, stem_2, ... that the directory does not hold.
RECURSIVE unique_name(_, _, _, _)
unique_name(listing, original, candidate, counter) ==
    IF candidate \notin DOMAIN listing THEN candidate
    ELSE unique_name(listing, original,
                     [original EXCEPT !.counters = Append(@, counter)], counter + 1)

\* calculate_file_hash: the MD5 digest of the bytes, "" when the file cannot
\* be read.  The digest is kept as the bytes it was computed from.
calculate_file_hash(d, path) ==
    IF ~Exists(d, path) THEN NoHash
    ELSE LET data == Entry(d, path).data
         IN  <<"md5", data.size_bytes, data.header, data.body>>

\* is_duplicate_file
is_duplicate_file(d, path) ==
    LET current_hash == calculate_file_hash(d, path)
    IN  IF current_hash = NoHash THEN FALSE
        ELSE current_hash \in DOMAIN d.processed_hashes

\* move_to_processing
move_to_processing(d, file_path) ==
    IF ~Exists(d, file_path)
    THEN [raised |-> TRUE, disk |-> d, path |-> NoPath]
    ELSE LET processing_path ==
                 Path(Processing, unique_name(d.files[Processing], file_path.name,
                                              file_path.name, 1))
         IN  [raised |-> FALSE,
              disk   |-> shutil_move(d, file_path, processing_path),
              path   |-> processing_path]

\* Mutant: the archived file itself is moved on into alerts/<level>.
move_to_processed_moving_copy(d, file_path, alert_level, day) ==
    LET today_dir == ProcessedDir(day)
        processed_path ==
            Path(today_dir, unique_name(d.files[today_dir], file_path.name,
                                        file_path.name, 1))
    IN  IF ~Exists(d, file_path)
        THEN [raised |-> TRUE, disk |-> d, path |-> NoPath]
        ELSE LET d1 == shutil_move(d, file_path, processed_path)
             IN  IF alert_level \in {"red", "orange"}
                 THEN LET alert_dir == AlertDir(alert_level)
                          alert_path ==
                              Path(alert_dir, unique_name(d1.files[alert_dir], file_path.name,
                                                          file_path.name, 1))
                      IN  [raised |-> FALSE,
                           disk   |-> shutil_move(d1, processed_path, alert_path),
                           path   |-> processed_path]
                 ELSE [raised |-> FALSE, disk |-> d1, path |-> processed_path]

\* Mutant: the alert level is lower-cased before it is compared.
move_to_processed_ignoring_case(d, file_path, alert_level, day) ==
    LET today_dir == ProcessedDir(day)
        processed_path ==
            Path(today_dir, unique_name(d.files[today_dir], file_path.name,
                                        file_path.name, 1))
        lowered == CASE alert_level = "RED"    -> "red"
                     [] alert_level = "ORANGE" -> "orange"
                     [] alert_level = "Orange" -> "orange"
                     [] OTHER                  -> alert_level
    IN  IF ~Exists(d, file_path)
        THEN [raised |-> TRUE, disk |-> d, path |-> NoPath]
        ELSE LET d1 == shutil_move(d, file_path, processed_path)
             IN  IF lowered \in {"red", "orange"}
                 THEN LET alert_dir == AlertDir(lowered)
                          alert_path ==
                              Path(alert_dir, unique_name(d1.files[alert_dir], file_path.name,
                                                          file_path.name, 1))
                      IN  [raised |-> FALSE,
                           disk   |-> shutil_copy2(d1, processed_path, alert_path),
                           path   |-> processed_path]
                 ELSE [raised |-> FALSE, disk |-> d1, path |-> processed_path]

\* move_to_processed; day is the day datetime.now() falls on.
move_to_processed(d, file_path, alert_level, day) ==
    LET today_dir == ProcessedDir(day)
        processed_path ==
            Path(today_dir, unique_name(d.files[today_dir], file_path.name,
                                        file_path.name, 1))
    IN  IF ~Exists(d, file_path)
        THEN [raised |-> TRUE, disk |-> d, path |-> NoPath]
        ELSE LET d1 == shutil_move(d, file_path, processed_path)
             IN  IF alert_level \in {"red", "orange"}
                 THEN LET alert_dir == AlertDir(alert_level)
                          alert_path ==
                              Path(alert_dir, unique_name(d1.files[alert_dir], file_path.name,
                                                          file_path.name, 1))
                      IN  [raised |-> FALSE,
                           disk   |-> shutil_copy2(d1, processed_path, alert_path),
                           path   |-> processed_path]
                 ELSE [raised |-> FALSE, disk |-> d1, path |-> processed_path]

\* failed_path.with_suffix(failed_path.suffix + ".error")
error_log_name(name) == [name EXCEPT !.suffix = @ \o ".error"]

\* move_to_failed; clock is datetime.now(timezone.utc).
move_to_failed(d, file_path, error_reason, clock) ==
    LET failed_path ==
            Path(Failed, unique_name(d.files[Failed], file_path.name, file_path.name, 1))
    IN  IF ~Exists(d, file_path)
        THEN [raised |-> TRUE, disk |-> d, path |-> NoPath]
        ELSE LET d1 == shutil_move(d, file_path, failed_path)
                 error_log_path == Path(Failed, error_log_name(failed_path.name))
                 error_info ==
                     [original_file |-> file_path.name,
                      error_reason  |-> error_reason,
                      timestamp     |-> isoformat(clock),
                      file_size     |-> IF Exists(d1, failed_path)
                                        THEN Entry(d1, failed_path).data.size_bytes ELSE 0]
             IN  [raised |-> FALSE,
                  disk   |-> write_file(d1, error_log_path, error_info),
                  path   |-> failed_path]

\* Mutant: every call adds the filename to a list kept under the hash.
record_processed_file_appending(d, file_path, processing_result, clock) ==
    LET file_hash == calculate_file_hash(d, file_path)
    IN  IF file_hash = NoHash THEN d
        ELSE [d EXCEPT !.processed_hashes =
                           (file_hash :> (IF file_hash \in DOMAIN @
                                          THEN Append(@[file_hash], file_path.name)
                                          ELSE <<file_path.name>>)) @@ @]

\* record_processed_file: processed_hashes.json is read, the entry for the
\* hash is set to the filename and the registry is written back; then the
\* metadata record <stem>_metadata.json is written.
record_processed_file(d, file_path, processing_result, clock) ==
    LET file_hash == calculate_file_hash(d, file_path)
    IN  IF file_hash = NoHash THEN d
        ELSE LET processed_hashes == (file_hash :> file_path.name) @@ d.processed_hashes
                 processing_metadata ==
                     [filename             |-> file_path.name,
                      file_hash            |-> file_hash,
                      file_size            |-> Entry(d, file_path).data.size_bytes,
                      processing_timestamp |-> isoformat(clock),
                      processing_result    |-> processing_result,
                      alert_level          |-> processing_result.alert_level]
                 stem == [base |-> file_path.name.base, counters |-> file_path.name.counters]
             IN  [d EXCEPT !.processed_hashes = processed_hashes,
                           !.metadata = (stem :> processing_metadata) @@ @]

\* file_path.suffix.lower() on the suffixes that occur.
lower_suffix(suffix) == IF suffix = ".PDF" THEN ".pdf" ELSE suffix

\* ', '.join(errors), as the pieces of the resulting string.
Join(strings) ==
    [k \in 1..(2 * Len(strings) - 1) |->
        IF k % 2 = 1 THEN strings[(k + 1) \div 2] ELSE ", "]

\* Mutant: a duplicate is an error instead of a warning.
validate_file_duplicate_error(d, file_path) ==
    IF ~Exists(d, file_path)
    THEN [valid |-> FALSE, errors |-> <<"File does not exist">>,
          warnings |-> <<>>, file_info |-> <<>>]
    ELSE LET data == Entry(d, file_path).data
             file_size == data.size_bytes
             size_errors ==
                 IF file_size < MinFileSize THEN <<"File too small (less than 1KB)">>
                 ELSE IF file_size > MaxFileSize THEN <<"File too large (more than 50MB)">>
                 ELSE <<>>
             suffix_errors ==
                 IF lower_suffix(file_path.name.suffix) # ".pdf" THEN <<"File must be PDF format">> ELSE <<>>
             header_errors ==
                 IF data.header # "%PDF"
                 THEN <<"File does not appear to be a valid PDF">> ELSE <<>>
             duplicate_errors ==
                 IF is_duplicate_file(d, file_path)
                 THEN <<"File appears to be a duplicate">> ELSE <<>>
             errors == size_errors \o suffix_errors \o header_errors \o duplicate_errors
         IN  [valid     |-> Len(errors) = 0,
              errors    |-> errors,
              warnings  |-> <<>>,
              file_info |-> [size_bytes |-> file_size,
                             filename   |-> file_path.name,
                             file_hash  |-> calculate_file_hash(d, file_path)]]

\* Mutant: a file of exactly 50MB is too large.
validate_file_exclusive_max(d, file_path) ==
    IF ~Exists(d, file_path)
    THEN [valid |-> FALSE, errors |-> <<"File does not exist">>,
          warnings |-> <<>>, file_info |-> <<>>]
    ELSE LET data == Entry(d, file_path).data
             file_size == data.size_bytes
             size_errors ==
                 IF file_size < MinFileSize THEN <<"File too small (less than 1KB)">>
                 ELSE IF file_size >= MaxFileSize THEN <<"File too large (more than 50MB)">>
                 ELSE <<>>
             suffix_errors ==
                 IF lower_suffix(file_path.name.suffix) # ".pdf" THEN <<"File must be PDF format">> ELSE <<>>
             header_errors ==
                 IF data.header # "%PDF"
                 THEN <<"File does not appear to be a valid PDF">> ELSE <<>>
             errors == size_errors \o suffix_errors \o header_errors
             warnings ==
                 IF is_duplicate_file(d, file_path)
                 THEN <<"File appears to be a duplicate">> ELSE <<>>
         IN  [valid     |-> Len(errors) = 0,
              errors    |-> errors,
              warnings  |-> warnings,
              file_info |-> [size_bytes |-> file_size,
                             filename   |-> file_path.name,
                             file_hash  |-> calculate_file_hash(d, file_path)]]

\* validate_file.  file_info keeps the size, the filename and the hash (the
\* file times and the size in MB are not part of the model).
validate_file(d, file_path) ==
    IF ~Exists(d, file_path)
    THEN [valid |-> FALSE, errors |-> <<"File does not exist">>,
          warnings |-> <<>>, file_info |-> <<>>]
    ELSE LET data == Entry(d, file_path).data
             file_size == data.size_bytes
             size_errors ==
                 IF file_size < MinFileSize THEN <<"File too small (less than 1KB)">>
                 ELSE IF file_size > MaxFileSize THEN <<"File too large (more than 50MB)">>
                 ELSE <<>>
             suffix_errors ==
                 IF lower_suffix(file_path.name.suffix) # ".pdf" THEN <<"File must be PDF format">> ELSE <<>>
             header_errors ==
                 IF data.header # "%PDF"
                 THEN <<"File does not appear to be a valid PDF">> ELSE <<>>
             errors == size_errors \o suffix_errors \o header_errors
             warnings ==
                 IF is_duplicate_file(d, file_path)
                 THEN <<"File appears to be a duplicate">> ELSE <<>>
         IN  [valid     |-> Len(errors) = 0,
              errors    |-> errors,
              warnings  |-> warnings,
              file_info |-> [size_bytes |-> file_size,
                             filename   |-> file_path.name,
                             file_hash  |-> calculate_file_hash(d, file_path)]]

\* validate_radiology_file of the Pathway connector, on the bytes and the path
\* of a file read from the watch directory.
validate_radiology_file(file_data, file_path) ==
    LET suffix_errors ==
            IF lower_suffix(file_path.name.suffix) # ".pdf" THEN <<"File must be PDF format">> ELSE <<>>
        file_size == file_data.size_bytes
        size_errors ==
            IF file_size < MinFileSize THEN <<"File too small (less than 1KB)">>
            ELSE IF file_size > MaxFileSize THEN <<"File too large (more than 50MB)">>
            ELSE <<>>
        header_errors ==
            IF file_data.header # "%PDF" THEN <<"Not a valid PDF file">> ELSE <<>>
        errors == suffix_errors \o size_errors \o header_errors
    IN  [is_valid  |-> Len(errors) = 0,
         file_hash |-> <<"md5", file_data.size_bytes, file_data.header, file_data.body>>,
         errors    |-> errors,
         warnings  |-> <<>>,
         file_info |-> [filename |-> file_path.name, size_bytes |-> file_size]]

(***************************************************************************)
(* File monitor                                                            *)
(***************************************************************************)

\* What the registered processors do when awaited: return, raise, or never
\* come back.
ProcessorOutcomes == [1..NumProcessors -> {"ok", "raise"}]
ProcessorBehaviours == [1..NumProcessors -> {"ok", "raise", "hang"}]

\* Mutant: the exception of a processor ends the loop.
RECURSIVE dispatch_stopping_at_raise(_, _, _)
dispatch_stopping_at_raise(outcomes, k, invoked) ==
    IF k > NumProcessors THEN [invoked |-> invoked, returned |-> TRUE]
    ELSE IF outcomes[k] = "hang"
    THEN [invoked |-> Append(invoked, k), returned |-> FALSE]
    ELSE IF outcomes[k] = "raise"
    THEN [invoked |-> Append(invoked, k), returned |-> TRUE]
    ELSE dispatch_stopping_at_raise(outcomes, k + 1, Append(invoked, k))

\* The `for processor in self.file_processors` loop: every processor is
\* awaited in registration order; an exception is logged and the loop goes
\* on; the loop stays at a processor that never comes back.
RECURSIVE dispatch(_, _, _)
dispatch(outcomes, k, invoked) ==
    IF k > NumProcessors THEN [invoked |-> invoked, returned |-> TRUE]
    ELSE IF outcomes[k] = "hang"
    THEN [invoked |-> Append(invoked, k), returned |-> FALSE]
    ELSE dispatch(outcomes, k + 1, Append(invoked, k))

\* Mutant: the `except` branch does not count the error.
process_new_file_except_uncounted(d, file_path, validation, reason, clock) ==
    LET retry == IF Exists(d, file_path)
                 THEN move_to_failed(d, file_path, reason, clock)
                 ELSE [raised |-> TRUE, disk |-> d, path |-> NoPath]
    IN  [disk |-> retry.disk, processed |-> 0, errors |-> 0,
         validation |-> validation, path |-> retry.path, invoked |-> <<>>,
         returned |-> TRUE]

\* The `except Exception as e` branch of _process_new_file.
process_new_file_except(d, file_path, validation, reason, clock) ==
    LET retry == IF Exists(d, file_path)
                 THEN move_to_failed(d, file_path, reason, clock)
                 ELSE [raised |-> TRUE, disk |-> d, path |-> NoPath]
    IN  [disk |-> retry.disk, processed |-> 0, errors |-> 1,
         validation |-> validation, path |-> retry.path, invoked |-> <<>>,
         returned |-> TRUE]

\* Mutant: an invalid file is logged but handed on like a valid one.
process_new_file_ignoring_validation(d, file_path, outcomes, clock) ==
    LET validation == validate_file(d, file_path)
        moved == move_to_processing(d, file_path)
    IN  IF moved.raised
        THEN process_new_file_except(d, file_path, validation, <<"File not found">>, clock)
        ELSE LET awaited == dispatch(outcomes, 1, <<>>)
             IN  [disk |-> moved.disk,
                  processed |-> IF awaited.returned THEN 1 ELSE 0, errors |-> 0,
                  validation |-> validation, path |-> moved.path,
                  invoked |-> awaited.invoked, returned |-> awaited.returned]

\* Mutant: the processors are handed the file where it was found; it is not
\* moved to processing/.
process_new_file_dispatching_in_place(d, file_path, outcomes, clock) ==
    LET validation == validate_file(d, file_path)
    IN  IF ~validation.valid
        THEN LET error_msg == <<"File validation failed: ">> \o Join(validation.errors)
                 moved == move_to_failed(d, file_path, error_msg, clock)
             IN  IF moved.raised
                 THEN process_new_file_except(d, file_path, validation,
                                              <<"No such file or directory">>, clock)
                 ELSE [disk |-> moved.disk, processed |-> 0, errors |-> 1,
                       validation |-> validation, path |-> moved.path, invoked |-> <<>>,
                       returned |-> TRUE]
        ELSE LET awaited == dispatch(outcomes, 1, <<>>)
             IN  [disk |-> d,
                  processed |-> IF awaited.returned THEN 1 ELSE 0, errors |-> 0,
                  validation |-> validation, path |-> file_path,
                  invoked |-> awaited.invoked, returned |-> awaited.returned]

\* FileMonitor._process_new_file: what it does to the disk, what it adds to
\* processed_count and error_count, where the file went, which processors it
\* awaited and whether it has returned.  outcomes says what the processors
\* do.  No exception leaves the function: the outer `except Exception`
\* catches what the body raises.
process_new_file(d, file_path, outcomes, clock) ==
    LET validation == validate_file(d, file_path)
    IN  IF ~validation.valid
        THEN LET error_msg == <<"File validation failed: ">> \o Join(validation.errors)
                 moved == move_to_failed(d, file_path, error_msg, clock)
             IN  IF moved.raised
                 THEN process_new_file_except(d, file_path, validation,
                                              <<"No such file or directory">>, clock)
                 ELSE [disk |-> moved.disk, processed |-> 0, errors |-> 1,
                       validation |-> validation, path |-> moved.path, invoked |-> <<>>,
                       returned |-> TRUE]
        ELSE LET moved == move_to_processing(d, file_path)
             IN  IF moved.raised
                 THEN process_new_file_except(d, file_path, validation,
                                              <<"File not found">>, clock)
                 ELSE LET awaited == dispatch(outcomes, 1, <<>>)
                      IN  [disk |-> moved.disk,
                           processed |-> IF awaited.returned THEN 1 ELSE 0, errors |-> 0,
                           validation |-> validation, path |-> moved.path,
                           invoked |-> awaited.invoked, returned |-> awaited.returned]

(***************************************************************************)
(* Specification of the ingestion pipeline                                 *)
(***************************************************************************)

ArchiveLevels == {"red", "green"}
ResultLevels == {"RED", "GREEN"}

InitIngest ==
    /\ FsIdle
    /\ ClassifyIdle
    /\ EscIdle
    /\ OthersIdle

\* A report is written into incoming/.
Submit(name, data) ==
    /\ Cardinality(DOMAIN born) < MaxFiles
    /\ name \notin DOMAIN disk.files[Incoming]
    /\ disk' = write_file(disk, Path(Incoming, name), data)
    /\ born' = (disk.next_inode :> data) @@ born
    /\ last' = [op |-> "submit", dst |-> Path(Incoming, name), inode |-> disk.next_inode]
    /\ UNCHANGED <<today, processed_count, error_count>>
    /\ UNCHANGED classVars
    /\ UNCHANGED escVars
    /\ UNCHANGED otherVars

\* The monitor handles a file of incoming/ (a stable file reported by the
\* event handler, or one found by _process_existing_files).
ProcessNewFile(name, outcomes) ==
    /\ name \in DOMAIN disk.files[Incoming]
    /\ LET file_path == Path(Incoming, name)
           done == process_new_file(disk, file_path, outcomes, now)
       IN  /\ disk' = done.disk
           /\ processed_count' = processed_count + done.processed
           /\ error_count' = error_count + done.errors
           /\ last' = [op         |-> "process_new_file",
                       src        |-> file_path,
                       dst        |-> done.path,
                       inode      |-> Entry(disk, file_path).inode,
                       validation |-> done.validation,
                       invoked    |-> done.invoked,
                       outcomes   |-> outcomes,
                       returned   |-> done.returned,
                       event      |-> FALSE]
           /\ awaiting' = IF done.returned THEN awaiting
                          ELSE awaiting \cup {[path      |-> done.path,
                                                inode     |-> Entry(disk, file_path).inode,
                                                processor |-> done.invoked[Len(done.invoked)],
                                                started   |-> now]}
    /\ UNCHANGED <<today, born, processed_files, watchVars>>
    /\ UNCHANGED classVars
    /\ UNCHANGED escVars
    /\ UNCHANGED <<recVars, qaVars, regVars, dashVars>>

\* A client of the filesystem manager archives a file of processing/.
MoveToProcessed(name, alert_level) ==
    /\ name \in DOMAIN disk.files[Processing]
    /\ LET file_path == Path(Processing, name)
           moved == move_to_processed(disk, file_path, alert_level, today)
       IN  /\ disk' = moved.disk
           /\ last' = [op          |-> "move_to_processed",
                       src         |-> file_path,
                       dst         |-> moved.path,
                       inode       |-> Entry(disk, file_path).inode,
                       alert_level |-> alert_level]
    /\ UNCHANGED <<today, processed_count, error_count, born>>
    /\ UNCHANGED classVars
    /\ UNCHANGED escVars
    /\ UNCHANGED otherVars

\* A client of the filesystem manager records the result for an archived file.
RecordProcessedFile(file_path, processing_result) ==
    /\ file_path.dir \in {ProcessedDir(d) : d \in Days}
    /\ Exists(disk, file_path)
    /\ disk' = record_processed_file(disk, file_path, processing_result, now)
    /\ last' = [op     |-> "record_processed_file",
                src    |-> file_path,
                inode  |-> Entry(disk, file_path).inode,
                result |-> processing_result,
                repeat |-> /\ last.op = "record_processed_file"
                           /\ last.src = file_path
                           /\ last.result = processing_result]
    /\ UNCHANGED <<today, processed_count, error_count, born>>
    /\ UNCHANGED classVars
    /\ UNCHANGED escVars
    /\ UNCHANGED otherVars

\* Midnight passes.
NextDay ==
    /\ today + 1 \in Days
    /\ today' = today + 1
    /\ last' = NoCall
    /\ UNCHANGED <<disk, processed_count, error_count, born>>
    /\ UNCHANGED classVars
    /\ UNCHANGED escVars
    /\ UNCHANGED otherVars

\* The names a directory can come to hold.
StoredNames ==
    UNION {DOMAIN disk.files[d] : d \in DirIds}

NextIngest ==
    \/ \E name \in IncomingNames, data \in FileContents : Submit(name, data)
    \/ \E name \in IncomingNames, outcomes \in ProcessorOutcomes : ProcessNewFile(name, outcomes)
    \/ \E name \in StoredNames, level \in ArchiveLevels : MoveToProcessed(name, level)
    \/ \E day \in Days, name \in StoredNames, level \in ResultLevels :
           RecordProcessedFile(Path(ProcessedDir(day), name), [alert_level |-> level])
    \/ NextDay

SpecIngest == InitIngest /\ [][NextIngest]_vars

\* The entries of a directory that are the file with the given inode.
NamesOf(d, dir, inode) == {n \in DOMAIN d.files[dir] : d.files[dir][n].inode = inode}

\* C6: a document whose content hash is already in the persisted hash
\* registry is never dispatched to the downstream processors again.
C6_DuplicateNeverDispatched ==
    (/\ last.op = "process_new_file"
     /\ last.dst # NoPath
     /\ calculate_file_hash(disk, last.dst) \in DOMAIN disk.processed_hashes)
        => last.invoked = <<>>

\* C7: every file for which validate returns valid = false is moved to failed/
\* together with a sidecar .error record whose error_reason contains the
\* validation errors; it is not moved to processing/, not dispatched to a
\* processor, and is counted as an error.
C7_InvalidFileGoesToFailed ==
    [][(last'.op = "process_new_file" /\ ~last'.validation.valid) =>
          LET failed == disk'.files[Failed]
              sidecar == [last'.dst.name EXCEPT !.suffix = ".pdf.error"]
          IN  /\ last'.dst.dir = Failed
              /\ last'.dst.name \in DOMAIN failed
              /\ failed[last'.dst.name] = [data |-> born[last'.inode], inode |-> last'.inode]
              /\ sidecar \in DOMAIN failed
              /\ last'.validation.errors # <<>>
              /\ \A k \in 1..Len(last'.validation.errors) :
                     \E j \in 1..Len(failed[sidecar].data.error_reason) :
                         failed[sidecar].data.error_reason[j] = last'.validation.errors[k]
              /\ NamesOf(disk', Processing, last'.inode) = {}
              /\ last'.invoked = <<>>
              /\ error_count' = error_count + 1
              /\ processed_count' = processed_count]_vars

\* A 500-byte file was handled: it is in failed/ and its sidecar says too small.
C7_Witness ==
    /\ last.op = "process_new_file"
    /\ born[last.inode].size_bytes = 500
    /\ last.dst.dir = Failed
    /\ \E j \in 1..Len(disk.files[Failed][[last.dst.name EXCEPT !.suffix = ".pdf.error"]].data.error_reason) :
           disk.files[Failed][[last.dst.name EXCEPT !.suffix = ".pdf.error"]].data.error_reason[j]
               = "File too small (less than 1KB)"

\* The first of name, stem_1, stem_2, ... that the listing does not hold.
FirstFree(listing, name) ==
    IF name \notin DOMAIN listing THEN name
    ELSE LET free(k) == [name EXCEPT !.counters = Append(@, k)] \notin DOMAIN listing
             N == CHOOSE k \in 1..(Cardinality(DOMAIN listing) + 1) :
                      free(k) /\ \A j \in 1..(k - 1) : ~free(j)
         IN  [name EXCEPT !.counters = Append(@, N)]

\* C8: a move into a directory that already holds a file of the same name
\* never overwrites or removes the existing file; the moved file is stored
\* under the first free name stem_N, and every file moved is still present
\* with its own content.
C8_MovesNeverOverwrite ==
    [][/\ \A dir \in DirIds \ {Incoming} : \A n \in DOMAIN disk.files[dir] :
              IF n \in DOMAIN disk'.files[dir]
              THEN disk'.files[dir][n] = disk.files[dir][n]
              ELSE last'.op \in {"process_new_file", "move_to_processed"}
                       /\ last'.src = Path(dir, n)
       /\ (last'.op \in {"process_new_file", "move_to_processed"} /\ last'.dst # NoPath) =>
              last'.dst.name = FirstFree(disk.files[last'.dst.dir], last'.src.name)
       /\ \A i \in DOMAIN born' :
              \E dir \in DirIds : \E n \in NamesOf(disk', dir, i) :
                  disk'.files[dir][n].data = born'[i]]_vars

\* Two different files named scan.pdf were moved into the same directory: the
\* first is still there, the second is scan_1.pdf.
C8_Witness ==
    /\ last.op \in {"process_new_file", "move_to_processed"}
    /\ last.dst # NoPath
    /\ last.dst.name.counters = <<1>>
    /\ LET first == [last.dst.name EXCEPT !.counters = <<>>]
           listing == disk.files[last.dst.dir]
       IN  /\ first \in DOMAIN listing
           /\ listing[first].inode # listing[last.dst.name].inode
           /\ listing[first].data # listing[last.dst.name].data
           /\ listing[first].data = born[listing[first].inode]
           /\ listing[last.dst.name].data = born[last.inode]

\* C9: a file moved with move_to_processing and then move_to_processed ends
\* under processed/YYYY/MM/DD/ of the day with exactly its original bytes,
\* and is no longer in incoming/ or processing/.
C9_RoundTripKeepsContent ==
    last.op = "move_to_processed" =>
        /\ last.dst.dir = ProcessedDir(today)
        /\ Exists(disk, last.dst)
        /\ Entry(disk, last.dst) = [data |-> born[last.inode], inode |-> last.inode]
        /\ NamesOf(disk, Incoming, last.inode) = {}
        /\ NamesOf(disk, Processing, last.inode) = {}

\* A file went through processing/ and was archived on the second day.
C9_Witness ==
    /\ last.op = "move_to_processed"
    /\ last.src.dir = Processing
    /\ last.dst.dir = <<"processed", "2024/01/02">>
    /\ Entry(disk, last.dst).inode = last.inode

\* C10: calling record_processed_file twice with the same document and result
\* leaves the registry as the first call left it, with the entry for the
\* document's hash and every other entry unchanged.
C10_RecordIsIdempotent ==
    [][(last'.op = "record_processed_file" /\ last'.repeat) =>
          /\ disk'.processed_hashes = disk.processed_hashes
          /\ calculate_file_hash(disk', last'.src) \in DOMAIN disk'.processed_hashes
          /\ disk'.processed_hashes[calculate_file_hash(disk', last'.src)] = last'.src.name]_vars

\* The same file was recorded twice in a row while the registry holds
\* another entry as well.
C10_Witness ==
    /\ last.op = "record_processed_file"
    /\ last.repeat
    /\ Cardinality(DOMAIN disk.processed_hashes) = 2

AllProcessorsOk == [k \in 1..NumProcessors |-> "ok"]

WellFormedContents == {data \in FileContents : data.size_bytes >= MinFileSize}

\* The ingestion pipeline on well-formed reports with processors that return:
\* reports are taken into processing/, archived and recorded, and reports
\* with the same bytes arrive again.
NextResubmit ==
    \/ \E name \in IncomingNames, data \in WellFormedContents : Submit(name, data)
    \/ \E name \in IncomingNames : ProcessNewFile(name, AllProcessorsOk)
    \/ \E name \in StoredNames : MoveToProcessed(name, "green")
    \/ \E day \in Days, name \in StoredNames :
           RecordProcessedFile(Path(ProcessedDir(day), name), [alert_level |-> "GREEN"])

SpecResubmit == InitIngest /\ [][NextResubmit]_vars

\* C12: for a file whose content hash is already in the registry and that
\* passes the size, extension and header rules, validate_file returns valid
\* with no errors and the duplicate among the warnings, and the monitor moves
\* the file to processing/, not to failed/.
C12_DuplicateIsOnlyAWarning ==
    [][(/\ last'.op = "process_new_file"
        /\ calculate_file_hash(disk, last'.src) \in DOMAIN disk.processed_hashes
        /\ born[last'.inode].size_bytes >= MinFileSize
        /\ born[last'.inode].size_bytes < MaxFileSize
        /\ lower_suffix(last'.src.name.suffix) = ".pdf"
        /\ born[last'.inode].header = "%PDF") =>
          /\ last'.validation.valid
          /\ last'.validation.errors = <<>>
          /\ last'.validation.warnings = <<"File appears to be a duplicate">>
          /\ last'.dst.dir = Processing
          /\ NamesOf(disk', Processing, last'.inode) = {last'.dst.name}
          /\ NamesOf(disk', Failed, last'.inode) = {}
          /\ disk'.files[Failed] = disk.files[Failed]]_vars

\* A report with the bytes of an archived and recorded one was validated:
\* valid, one warning, and it is now in processing/.
C12_Witness ==
    /\ last.op = "process_new_file"
    /\ last.validation.valid
    /\ Len(last.validation.warnings) = 1
    /\ last.validation.file_info.file_hash \in DOMAIN disk.processed_hashes
    /\ last.dst.dir = Processing
    /\ Exists(disk, last.dst)

(***************************************************************************)
(* Specification of the archive step: valid reports are taken into         *)
(* processing/ and archived under each of the alert levels the alerts      *)
(* directory is laid out for.                                              *)
(***************************************************************************)

AlertLevelNames == {alert_levels[k] : k \in 1..Len(alert_levels)}

NextArchive ==
    \/ \E name \in IncomingNames, data \in WellFormedContents : Submit(name, data)
    \/ \E name \in IncomingNames : ProcessNewFile(name, AllProcessorsOk)
    \/ \E name \in StoredNames, level \in AlertLevelNames : MoveToProcessed(name, level)
    \/ NextDay

SpecArchive == InitIngest /\ [][NextArchive]_vars

\* The alerts subdirectories, as one listing per level.
AlertsTree(d) == [level \in AlertLevelNames |-> d.files[AlertDir(level)]]

\* C11: move_to_processed puts the file in the dated processed directory for
\* every alert level; for "red" and "orange" the alerts subdirectory of that
\* level gains exactly one new file, a copy with the same bytes, while the
\* archived original stays in place and the other alerts subdirectories are
\* unchanged; for the other levels no alerts subdirectory changes.
C11_ArchiveAndCopyCritical ==
    [][(last'.op = "move_to_processed" /\ last'.dst # NoPath) =>
          LET level == last'.alert_level
              archived == [data |-> born[last'.inode], inode |-> last'.inode]
          IN  /\ last'.dst.dir = ProcessedDir(today)
              /\ last'.dst.name \in DOMAIN disk'.files[last'.dst.dir]
              /\ disk'.files[last'.dst.dir][last'.dst.name] = archived
              /\ IF level \in {"red", "orange"}
                 THEN LET before == disk.files[AlertDir(level)]
                          after == disk'.files[AlertDir(level)]
                      IN  /\ \A n \in DOMAIN before :
                                 n \in DOMAIN after /\ after[n] = before[n]
                          /\ Cardinality(DOMAIN after \ DOMAIN before) = 1
                          /\ \A n \in DOMAIN after \ DOMAIN before :
                                 /\ after[n].data = archived.data
                                 /\ after[n].inode # archived.inode
                                 /\ n = FirstFree(before, last'.src.name)
                          /\ \A other \in AlertLevelNames \ {level} :
                                 AlertsTree(disk')[other] = AlertsTree(disk)[other]
                 ELSE AlertsTree(disk') = AlertsTree(disk)]_vars

\* A second report was archived as "orange": alerts/orange holds two copies,
\* the newer one with the bytes of the report just archived, which is still
\* in the dated directory.
C11_Witness ==
    /\ last.op = "move_to_processed"
    /\ last.alert_level = "orange"
    /\ Exists(disk, last.dst)
    /\ Entry(disk, last.dst).inode = last.inode
    /\ Cardinality(DOMAIN disk.files[AlertDir("orange")]) = 2
    /\ \E n \in DOMAIN disk.files[AlertDir("orange")] :
           /\ n.counters = <<1>>
           /\ disk.files[AlertDir("orange")][n].data = born[last.inode]
           /\ disk.files[AlertDir("orange")][n].inode # last.inode

(***************************************************************************)
(* Specification of the archive step as the classifier's callers reach it: *)
(* the alert level handed to move_to_processed is one the classifier emits *)
(* (upper case) or one of the lower-case and mixed-case spellings.         *)
(***************************************************************************)

\* alert_level values of detect_critical_findings.
ClassifierLevels == {"RED", "ORANGE", "YELLOW", "GREEN"}

LevelSpellings == ClassifierLevels \cup {"red", "Orange", "green"}

NextArchiveSpelled ==
    \/ \E name \in IncomingNames, data \in WellFormedContents : Submit(name, data)
    \/ \E name \in IncomingNames : ProcessNewFile(name, AllProcessorsOk)
    \/ \E name \in StoredNames, level \in LevelSpellings : MoveToProcessed(name, level)

SpecArchiveSpelled == InitIngest /\ [][NextArchiveSpelled]_vars

\* C29: move_to_processed compares the level with 'red' and 'orange' as
\* written: for every other string, the upper-case 'RED' and 'ORANGE'
\* included, the file goes to the dated processed directory and no alerts
\* subdirectory changes; only for 'red' and 'orange' themselves does one.
C29_UpperCaseLevelGetsNoAlertCopy ==
    [][(last'.op = "move_to_processed" /\ last'.dst # NoPath) =>
          /\ last'.dst.dir = ProcessedDir(today)
          /\ NamesOf(disk', last'.dst.dir, last'.inode) = {last'.dst.name}
          /\ NamesOf(disk', Processing, last'.inode) = {}
          /\ (last'.alert_level \notin {"red", "orange"}) <=>
                 (AlertsTree(disk') = AlertsTree(disk))]_vars

\* A report was archived as 'RED': it is in the dated directory and
\* alerts/red is empty.
C29_Witness ==
    /\ last.op = "move_to_processed"
    /\ last.alert_level = "RED"
    /\ Exists(disk, last.dst)
    /\ last.dst.dir = ProcessedDir(today)
    /\ DOMAIN disk.files[AlertDir("red")] = {}

(***************************************************************************)
(* Specification of validation: files of every size around the two size    *)
(* limits, with and without the PDF header and suffix, are written to the  *)
(* watch directory and validated by the filesystem manager and by the      *)
(* connector.                                                              *)
(***************************************************************************)

MaxSizeOffset == 1   \* how far from the two size limits the file sizes range

SizeOffsets == (0 - MaxSizeOffset)..MaxSizeOffset

BoundarySizes ==
    {MinFileSize + k : k \in SizeOffsets} \cup {MaxFileSize + k : k \in SizeOffsets}

SizedContents ==
    {[size_bytes |-> s, header |-> h, body |-> 1] :
        s \in BoundarySizes, h \in {"%PDF", "<htm"}}

ValidatedNames ==
    {[base |-> "scan", counters |-> <<>>, suffix |-> x] : x \in {".pdf", ".PDF", ".txt"}}

\* FilesystemManager.validate_file is called on a file of the watch directory.
ValidateFile(name) ==
    /\ name \in DOMAIN disk.files[Incoming]
    /\ LET file_path == Path(Incoming, name)
       IN  last' = [op         |-> "validate_file",
                    src        |-> file_path,
                    inode      |-> Entry(disk, file_path).inode,
                    validation |-> validate_file(disk, file_path)]
    /\ UNCHANGED <<disk, today, processed_count, error_count, born>>
    /\ UNCHANGED classVars
    /\ UNCHANGED escVars
    /\ UNCHANGED otherVars

\* The connector reads a file of the watch directory and validates its bytes.
ValidateRadiologyFile(name) ==
    /\ name \in DOMAIN disk.files[Incoming]
    /\ LET file_path == Path(Incoming, name)
       IN  last' = [op         |-> "validate_radiology_file",
                    src        |-> file_path,
                    inode      |-> Entry(disk, file_path).inode,
                    validation |-> validate_radiology_file(Entry(disk, file_path).data,
                                                           file_path)]
    /\ UNCHANGED <<disk, today, processed_count, error_count, born>>
    /\ UNCHANGED classVars
    /\ UNCHANGED escVars
    /\ UNCHANGED otherVars

NextValidate ==
    \/ \E name \in ValidatedNames, data \in SizedContents : Submit(name, data)
    \/ \E name \in ValidatedNames : ValidateFile(name)
    \/ \E name \in ValidatedNames : ValidateRadiologyFile(name)

SpecValidate == InitIngest /\ [][NextValidate]_vars

\* The size rule passed: neither size error is among the errors.
SizeRulePassed(validation) ==
    \A k \in 1..Len(validation.errors) :
        validation.errors[k] \notin {"File too small (less than 1KB)",
                                     "File too large (more than 50MB)"}

\* C13 as stated: validation accepts a file's size exactly when
\* 1024 <= size_bytes < 52428800, the upper limit excluded.
C13_SizeAcceptedBelowUpperLimit ==
    last.op \in {"validate_file", "validate_radiology_file"} =>
        (SizeRulePassed(last.validation)
            <=> (/\ MinFileSize <= born[last.inode].size_bytes
                 /\ born[last.inode].size_bytes < MaxFileSize))

\* C13, amended: validation accepts a file's size exactly when
\* 1024 <= size_bytes <= 52428800, both limits included: 1023 bytes is too
\* small, 1024 and 52428800 bytes pass, 52428801 bytes is too large.
C13_SizeAcceptedUpToUpperLimit ==
    last.op \in {"validate_file", "validate_radiology_file"} =>
        LET size == born[last.inode].size_bytes
        IN  /\ SizeRulePassed(last.validation)
                   <=> (MinFileSize <= size /\ size <= MaxFileSize)
            /\ size < MinFileSize =>
                   \E k \in 1..Len(last.validation.errors) :
                       last.validation.errors[k] = "File too small (less than 1KB)"
            /\ size > MaxFileSize =>
                   \E k \in 1..Len(last.validation.errors) :
                       last.validation.errors[k] = "File too large (more than 50MB)"

\* A well-formed PDF of exactly 52428800 bytes was validated by the
\* filesystem manager and found valid.
C13_Witness ==
    /\ last.op = "validate_file"
    /\ born[last.inode].size_bytes = MaxFileSize
    /\ last.validation.valid
    /\ last.validation.errors = <<>>

(***************************************************************************)
(* Treatment recommendations                                              *)
(*                                                                         *)
(* A Python list whose order is the iteration order of a set is kept as    *)
(* the bag of its elements: how often each string occurs in the list.      *)
(***************************************************************************)

\* The if/elif chain of get_treatment_recommendations: per branch the words
\* looked for in the lower-cased condition and the strings it extends the
\* list with.
treatment_recommendations ==
    << [words   |-> <<<<"p","u","l","m","o","n","a","r","y"," ","e","m","b","o","l","i","s","m">>>>,  \* 'pulmonary embolism'
        entries |-> <<"Initiate anticoagulation therapy immediately",
                      "Consider thrombolytic therapy if massive PE",
                      "Monitor oxygen saturation and blood pressure">>],
       [words   |-> <<<<"a","o","r","t","i","c"," ","d","i","s","s","e","c","t","i","o","n">>>>,  \* 'aortic dissection'
        entries |-> <<"Control blood pressure (SBP <120 mmHg)",
                      "Urgent cardiothoracic surgery consultation",
                      "Prepare for emergency surgery">>],
       [words   |-> <<<<"h","e","m","o","r","r","h","a","g","e">>, <<"b","l","e","e","d">>, <<"h","e","m","a","t","o","m","a">>>>,  \* 'hemorrhage', 'bleed', 'hematoma'
        entries |-> <<"Type and crossmatch blood products",
                      "Consider reversal agents if on anticoagulation",
                      "Neurosurgical consultation if intracranial">>],
       [words   |-> <<<<"p","n","e","u","m","o","t","h","o","r","a","x">>>>,  \* 'pneumothorax'
        entries |-> <<"Chest tube placement if tension pneumothorax",
                      "Serial chest X-rays",
                      "Monitor respiratory status">>],
       [words   |-> <<<<"f","r","a","c","t","u","r","e">>>>,  \* 'fracture'
        entries |-> <<"Immobilize affected area",
                      "Orthopedic consultation if displaced",
                      "Pain management protocol">>],
       [words   |-> <<<<"m","a","s","s">>>>,  \* 'mass'
        entries |-> <<"Further characterization with contrast study",
                      "Oncology consultation",
                      "Tissue sampling consideration">>]
    >>

\* The if/elif chain of CriticalAlertQuestionAnswerer._get_treatment_recommendations.
answerer_treatment_recommendations ==
    << [words   |-> <<<<"p","u","l","m","o","n","a","r","y"," ","e","m","b","o","l","i","s","m">>>>,  \* 'pulmonary embolism'
        entries |-> <<"Anticoagulation per PE protocol",
                      "Consider thrombolysis if massive PE",
                      "Monitor hemodynamics closely">>],
       [words   |-> <<<<"a","o","r","t","i","c"," ","d","i","s","s","e","c","t","i","o","n">>>>,  \* 'aortic dissection'
        entries |-> <<"Blood pressure control <120 mmHg",
                      "Immediate cardiothoracic surgery consult",
                      "Type and screen blood products">>],
       [words   |-> <<<<"h","e","m","o","r","r","h","a","g","e">>, <<"b","l","e","e","d">>>>,  \* 'hemorrhage', 'bleed'
        entries |-> <<"Hemostatic resuscitation",
                      "Reverse anticoagulation if applicable",
                      "Surgical consultation">>],
       [words   |-> <<<<"p","n","e","u","m","o","t","h","o","r","a","x">>>>,  \* 'pneumothorax'
        entries |-> <<"Chest tube placement if tension",
                      "Serial imaging",
                      "Respiratory monitoring">>],
       [words   |-> <<<<"f","r","a","c","t","u","r","e">>>>,  \* 'fracture'
        entries |-> <<"Immobilization",
                      "Pain management",
                      "Orthopedic consultation">>]
    >>

Range(seq) == {seq[k] : k \in DOMAIN seq}

\* The list seq, up to the order of its elements.
ListAsBag(seq) == [e \in Range(seq) |-> Cardinality({k \in DOMAIN seq : seq[k] = e})]

\* list(set(seq)), up to the order of its elements.
list_set(seq) == [e \in Range(seq) |-> 1]

\* The branch of the if/elif chain a lower-cased condition takes, from branch
\* k on: the entries of the first branch one of whose words occurs in it.
RECURSIVE branch_entries(_, _, _)
branch_entries(table, condition_lower, k) ==
    IF k > Len(table) THEN <<>>
    ELSE IF \E w \in DOMAIN table[k].words : Contains(table[k].words[w], condition_lower)
         THEN table[k].entries
         ELSE branch_entries(table, condition_lower, k + 1)

\* The `for condition in conditions` loop: recommendations.extend(...) for
\* condition k and the ones after it.
RECURSIVE extend_recommendations(_, _, _, _)
extend_recommendations(table, cond_list, k, recommendations) ==
    IF k > Len(cond_list) THEN recommendations
    ELSE extend_recommendations(table, cond_list, k + 1,
             recommendations \o branch_entries(table, Lower(cond_list[k]), 1))

\* Mutant: the list is returned as it was built, without list(set(...)).
get_treatment_recommendations_keeping_repeats(cond_list) ==
    LET recommendations == extend_recommendations(treatment_recommendations, cond_list, 1, <<>>)
    IN  IF recommendations # <<>> THEN ListAsBag(recommendations)
        ELSE ListAsBag(<<"Standard follow-up care">>)

\* get_treatment_recommendations
get_treatment_recommendations(cond_list) ==
    LET recommendations == extend_recommendations(treatment_recommendations, cond_list, 1, <<>>)
    IN  IF recommendations # <<>> THEN list_set(recommendations)
        ELSE ListAsBag(<<"Standard follow-up care">>)

\* CriticalAlertQuestionAnswerer._get_treatment_recommendations
answerer_get_treatment_recommendations(critical_findings) ==
    LET recommendations ==
            extend_recommendations(answerer_treatment_recommendations, critical_findings, 1, <<>>)
    IN  IF recommendations # <<>> THEN list_set(recommendations)
        ELSE ListAsBag(<<"Standard care protocol">>)

MaxConditions == 2   \* length of the condition lists

\* Conditions the classifier reports (pulmonary embolism, aortic dissection,
\* hemorrhage, intracranial bleed, tension pneumothorax, acute stroke, subdural
\* hematoma; pneumonia, fracture, mass, pneumothorax; cyst, minor fracture),
\* and two findings as an extraction writes them.
ReportedConditions ==
    {red_alert_conditions[k] : k \in {1, 2, 3, 4, 5, 8, 11}}
        \cup {orange_alert_conditions[k] : k \in {1, 2, 3, 4}}
        \cup {yellow_alert_conditions[k] : k \in {1, 5}}
        \cup {<<"M","a","s","s","i","v","e"," ","P","u","l","m","o","n","a","r","y"," ","E","m","b","o","l","i","s","m">>,
              <<"S","u","b","d","u","r","a","l"," ","H","e","m","a","t","o","m","a"," ","w","i","t","h"," ","m","a","s","s"," ","e","f","f","e","c","t">>}

ConditionLists ==
    UNION {[1..n -> ReportedConditions] : n \in 0..MaxConditions}

InitRecommend ==
    /\ condition_list \in ConditionLists
    /\ recommendation_list = NoAdvice
    /\ question = <<>> /\ search_results = NoSearch /\ answer = NoAnswer
    /\ MonIdle
    /\ RegIdle
    /\ DashIdle
    /\ ClassifyIdle
    /\ EscIdle
    /\ FsIdle

\* The alert pipeline computes recommended_actions for the matched conditions.
GetTreatmentRecommendations ==
    /\ recommendation_list' = [function |-> "get_treatment_recommendations",
                               result   |-> get_treatment_recommendations(condition_list)]
    /\ UNCHANGED condition_list
    /\ UNCHANGED <<classVars, escVars, fsVars, qaVars, monVars, regVars, dashVars>>

\* The answerer computes treatment_recommendations for the critical findings.
AnswererGetTreatmentRecommendations ==
    /\ recommendation_list' = [function |-> "_get_treatment_recommendations",
                               result   |-> answerer_get_treatment_recommendations(condition_list)]
    /\ UNCHANGED condition_list
    /\ UNCHANGED <<classVars, escVars, fsVars, qaVars, monVars, regVars, dashVars>>

NextRecommend ==
    \/ GetTreatmentRecommendations
    \/ AnswererGetTreatmentRecommendations

SpecRecommend == InitRecommend /\ [][NextRecommend]_vars

\* The table and the default entry of the function that produced a result.
TableOf(function) ==
    IF function = "get_treatment_recommendations"
    THEN treatment_recommendations ELSE answerer_treatment_recommendations

DefaultOf(function) ==
    IF function = "get_treatment_recommendations"
    THEN "Standard follow-up care" ELSE "Standard care protocol"

\* The recommendation strings that apply to a condition: the entries of the
\* first row of the table one of whose words occurs in the condition.
Applicable(table, condition) ==
    LET hits == {k \in DOMAIN table :
                    \E w \in DOMAIN table[k].words :
                        Contains(table[k].words[w], Lower(condition))}
    IN  IF hits = {} THEN {}
        ELSE Range(table[CHOOSE k \in hits : \A j \in hits : k <= j].entries)

AnswerLimit == 3     \* answer_single_query: search_documents(query, limit=3)
DefaultLimit == 5    \* search_documents(self, query, limit=5)

\* Keywords that retrieve the X-ray elbow joint report.
elbow_keywords ==
    << <<"x","-","r","a","y">>,  \* 'x-ray'
       <<"x","r","a","y">>,  \* 'xray'
       <<"e","l","b","o","w">>,  \* 'elbow'
       <<"j","o","i","n","t">>,  \* 'joint'
       <<"b","o","n","e">>,  \* 'bone'
       <<"f","r","a","c","t","u","r","e">>,  \* 'fracture'
       <<"y","a","s","h","v","i">>  \* 'yashvi'
    >>

\* Keywords that retrieve the renal ultrasound report.
renal_keywords ==
    << <<"r","e","n","a","l">>,  \* 'renal'
       <<"k","i","d","n","e","y">>,  \* 'kidney'
       <<"u","l","t","r","a","s","o","u","n","d">>,  \* 'ultrasound'
       <<"h","e","m","a","t","u","r","i","a">>,  \* 'hematuria'
       <<"g","l","o","m","e","r","u","l","o","n","e","p","h","r","i","t","i","s">>,  \* 'glomerulonephritis'
       <<"t","u","m","o","r">>,  \* 'tumor'
       <<"s","c","a","r","r","i","n","g">>  \* 'scarring'
    >>

\* The documents search_documents can return: the content by its title, and
\* the metadata fields the answerer reads.
elbow_document ==
    [content  |-> "X-RAY ELBOW JOINT REPORT",
     metadata |-> [source      |-> "x ray elbow joint report format - drlogy (1).pdf",
                   type        |-> "x_ray_report",
                   alert_level |-> "GREEN"]]

renal_document ==
    [content  |-> "RENAL ULTRASOUND REPORT",
     metadata |-> [source      |-> "Renal-Ultrasound.pdf",
                   type        |-> "ultrasound_report",
                   alert_level |-> "YELLOW"]]

help_document ==
    [content  |-> "No specific matches found",
     metadata |-> [source |-> "extraction_system",
                   type   |-> "search_help"]]

\* any(keyword in query_lower for keyword in keywords)
AnyKeyword(keywords, query_lower) ==
    \E k \in DOMAIN keywords : Contains(keywords[k], query_lower)

\* documents[:limit]
Truncate(documents, limit) == SubSeq(documents, 1, Min(limit, Len(documents)))

\* search_documents
search_documents(query_string, limit) ==
    LET query_lower == Lower(query_string)
        elbow == IF AnyKeyword(elbow_keywords, query_lower) THEN <<elbow_document>> ELSE <<>>
        renal == IF AnyKeyword(renal_keywords, query_lower) THEN <<renal_document>> ELSE <<>>
        matched == elbow \o renal
        documents == IF matched = <<>> THEN <<help_document>> ELSE matched
    IN  [status        |-> "success",
         results_count |-> Len(documents),
         documents     |-> Truncate(documents, limit)]

\* doc["metadata"].get("alert_level", "GREEN")
doc_alert_level(doc) ==
    IF "alert_level" \in DOMAIN doc.metadata THEN doc.metadata.alert_level ELSE "GREEN"

\* The `for doc in retrieved_docs` loop of answer_single_query, from document
\* k on; acc holds alert_level and alerts_found.
RECURSIVE scan_retrieved_docs(_, _, _)
scan_retrieved_docs(retrieved_docs, k, acc) ==
    IF k > Len(retrieved_docs) THEN acc
    ELSE LET level == doc_alert_level(retrieved_docs[k])
             next ==
                 IF level = "RED"
                 THEN [alert_level |-> "RED", alerts_found |-> acc.alerts_found + 1]
                 ELSE IF level = "ORANGE" /\ acc.alert_level \notin {"RED"}
                 THEN [alert_level |-> "ORANGE", alerts_found |-> acc.alerts_found + 1]
                 ELSE IF level = "YELLOW" /\ acc.alert_level \notin {"RED", "ORANGE"}
                 THEN [alert_level |-> "YELLOW", alerts_found |-> acc.alerts_found + 1]
                 ELSE acc
         IN  scan_retrieved_docs(retrieved_docs, k + 1, next)

\* Mutant: the alert level is read off the first retrieved document only.
answer_single_query_first_document(query_string) ==
    LET results == search_documents(query_string, AnswerLimit)
    IN  IF results.status # "success" \/ results.documents = <<>>
        THEN [status |-> "error", alerts_found |-> 0, alert_level |-> "UNKNOWN",
              documents_retrieved |-> 0]
        ELSE LET retrieved_docs == results.documents
                 scanned == scan_retrieved_docs(SubSeq(retrieved_docs, 1, 1), 1,
                                [alert_level |-> "GREEN", alerts_found |-> 0])
             IN  [status              |-> "success",
                  alerts_found        |-> scanned.alerts_found,
                  alert_level         |-> scanned.alert_level,
                  documents_retrieved |-> Len(retrieved_docs)]

\* answer_single_query: status, alerts_found, alert_level and
\* rag_info.documents_retrieved of the returned dict.
answer_single_query(query_string) ==
    LET results == search_documents(query_string, AnswerLimit)
    IN  IF results.status # "success" \/ results.documents = <<>>
        THEN [status |-> "error", alerts_found |-> 0, alert_level |-> "UNKNOWN",
              documents_retrieved |-> 0]
        ELSE LET retrieved_docs == results.documents
                 scanned == scan_retrieved_docs(retrieved_docs, 1,
                                [alert_level |-> "GREEN", alerts_found |-> 0])
             IN  [status              |-> "success",
                  alerts_found        |-> scanned.alerts_found,
                  alert_level         |-> scanned.alert_level,
                  documents_retrieved |-> Len(retrieved_docs)]

MaxWords == 2        \* words in a question

\* Words the questions are made of.
QueryWords ==
    << <<"e","l","b","o","w">>,  \* 'elbow'
       <<"X","-","R","a","y">>,  \* 'X-Ray'
       <<"K","i","d","n","e","y">>,  \* 'Kidney'
       <<"u","l","t","r","a","s","o","u","n","d">>,  \* 'ultrasound'
       <<"b","r","a","i","n">>,  \* 'brain'
       <<"M","R","I">>,  \* 'MRI'
       <<"f","i","n","d","i","n","g","s">>,  \* 'findings'
       <<"F","r","a","c","t","u","r","e">>  \* 'Fracture'
    >>

\* " ".join(words)
RECURSIVE JoinWords(_)
JoinWords(word_list) ==
    IF word_list = <<>> THEN <<>>
    ELSE IF Len(word_list) = 1 THEN word_list[1]
    ELSE word_list[1] \o <<" ">> \o JoinWords(Tail(word_list))

Questions ==
    {JoinWords(word_list) :
        word_list \in UNION {[1..n -> Range(QueryWords)] : n \in 0..MaxWords}}

InitAnswer ==
    /\ question \in Questions
    /\ search_results = NoSearch
    /\ answer = NoAnswer
    /\ RecIdle
    /\ MonIdle
    /\ RegIdle
    /\ DashIdle
    /\ ClassifyIdle
    /\ EscIdle
    /\ FsIdle

\* The search endpoint is asked the question.
SearchDocuments(limit) ==
    /\ search_results' = search_documents(question, limit)
    /\ UNCHANGED <<question, answer>>
    /\ UNCHANGED <<classVars, escVars, fsVars, recVars, monVars, regVars, dashVars>>

\* The query endpoint is asked the question.
AnswerSingleQuery ==
    /\ answer' = answer_single_query(question)
    /\ UNCHANGED <<question, search_results>>
    /\ UNCHANGED <<classVars, escVars, fsVars, recVars, monVars, regVars, dashVars>>

NextAnswer ==
    \/ \E limit \in {AnswerLimit, DefaultLimit} : SearchDocuments(limit)
    \/ AnswerSingleQuery

SpecAnswer == InitAnswer /\ [][NextAnswer]_vars

\* Rank of an alert level: RED > ORANGE > YELLOW > GREEN.
LevelRank(level) ==
    CASE level = "RED" -> 3
      [] level = "ORANGE" -> 2
      [] level = "YELLOW" -> 1
      [] OTHER -> 0

\* The alert levels the documents of a search result carry, a document
\* without one counting as GREEN.
LevelsFound(results) ==
    {IF "alert_level" \in DOMAIN results.documents[k].metadata
     THEN results.documents[k].metadata.alert_level ELSE "GREEN" :
        k \in DOMAIN results.documents}

max_processing_time == 30          \* CriticalAlertApp.max_processing_time, seconds

MaxWaits == 2        \* times the clock of the monitor model moves on

\* RadiologyFileHandler._handle_file_event for a file that has settled in the
\* watch directory: the path is put in processed_files and the callback,
\* FileMonitor._process_new_file, is awaited; the `except` branch that takes
\* the path out again runs when the callback raises, which it never does.
HandleFileEvent(name, outcomes) ==
    /\ name \in DOMAIN disk.files[Incoming]
    /\ Path(Incoming, name) \notin processed_files
    /\ LET file_path == Path(Incoming, name)
           done == process_new_file(disk, file_path, outcomes, now)
           callback_raised == FALSE
       IN  /\ processed_files' = IF callback_raised
                                 THEN (processed_files \cup {file_path}) \ {file_path}
                                 ELSE processed_files \cup {file_path}
           /\ disk' = done.disk
           /\ processed_count' = processed_count + done.processed
           /\ error_count' = error_count + done.errors
           /\ last' = [op         |-> "process_new_file",
                       src        |-> file_path,
                       dst        |-> done.path,
                       inode      |-> Entry(disk, file_path).inode,
                       validation |-> done.validation,
                       invoked    |-> done.invoked,
                       outcomes   |-> outcomes,
                       returned   |-> done.returned,
                       event      |-> TRUE]
           /\ awaiting' = IF done.returned THEN awaiting
                          ELSE awaiting \cup {[path      |-> done.path,
                                                inode     |-> Entry(disk, file_path).inode,
                                                processor |-> done.invoked[Len(done.invoked)],
                                                started   |-> now]}
    /\ UNCHANGED <<today, born, watchVars>>
    /\ UNCHANGED classVars
    /\ UNCHANGED escVars
    /\ UNCHANGED <<recVars, qaVars, regVars, dashVars>>

\* max_processing_time seconds pass.
ProcessingTimePasses ==
    /\ now < MaxWaits * max_processing_time
    /\ now' = now + max_processing_time
    /\ UNCHANGED <<alerts, query>>
    /\ UNCHANGED classVars
    /\ UNCHANGED fsVars
    /\ UNCHANGED otherVars

\* One well-formed report and the 500-byte file.
MonitoredContents == {data \in FileContents : data.body = 1}

NextMonitor ==
    \/ \E name \in IncomingNames, data \in MonitoredContents : Submit(name, data)
    \/ \E name \in IncomingNames, outcomes \in ProcessorBehaviours :
           ProcessNewFile(name, outcomes)
    \/ \E name \in IncomingNames, outcomes \in ProcessorBehaviours :
           HandleFileEvent(name, outcomes)
    \/ ProcessingTimePasses

SpecMonitor == InitIngest /\ [][NextMonitor]_vars

\* C15: a call of a processor that has not finished within the maximum
\* processing time is abandoned (and the file routed to failed/): no call is
\* still suspended in a processor more than max_processing_time after it
\* started, and the file of no such call is still in processing/.
C15_SlowProcessorTimesOut ==
    \A call \in awaiting :
        now - call.started > max_processing_time =>
            /\ NamesOf(disk, Processing, call.inode) = {}
            /\ NamesOf(disk, Failed, call.inode) # {}

\* The processors that raised among those a call awaited.
Raised(call) == {k \in Range(call.invoked) : call.outcomes[k] = "raise"}

\* C16: when a processor raises for a file that is in processing/, the file
\* ends in failed/ with an error sidecar and the call counts as an error, not
\* as a processed file.
C16_ProcessorErrorGoesToFailed ==
    [][(/\ last'.op = "process_new_file"
        /\ last'.validation.valid
        /\ last'.returned
        /\ Raised(last') # {}) =>
          /\ NamesOf(disk', Processing, last'.inode) = {}
          /\ \E n \in NamesOf(disk', Failed, last'.inode) :
                 error_log_name(n) \in DOMAIN disk'.files[Failed]
          /\ error_count' = error_count + 1
          /\ processed_count' = processed_count]_vars

\* C18: for every file moved to processing/ the registered processors are
\* awaited one after the other in registration order, each once, whether or
\* not earlier ones raised (up to the first that never comes back); when none
\* hangs the call returns, no exception leaves it, and the file is still in
\* processing/.
C18_ProcessorsAreIsolated ==
    (last.op = "process_new_file" /\ last.dst.dir = Processing) =>
        LET hanging == {k \in 1..NumProcessors : last.outcomes[k] = "hang"}
            reached == IF hanging = {} THEN NumProcessors
                       ELSE CHOOSE k \in hanging : \A j \in hanging : k <= j
        IN  /\ last.invoked = [k \in 1..reached |-> k]
            /\ last.returned <=> hanging = {}
            /\ NamesOf(disk, Processing, last.inode) # {}

\* A valid file was handled whose first processor raised: all the processors
\* were awaited and the call returned.
C18_Witness ==
    /\ last.op = "process_new_file"
    /\ last.dst.dir = Processing
    /\ last.outcomes[1] = "raise"
    /\ Len(last.invoked) = NumProcessors
    /\ last.invoked[1] = 1
    /\ last.returned

\* C19: whenever the processing an event started fails (the file is invalid,
\* a move fails or a processor raises), the path is taken out of
\* processed_files again.
C19_FailedPathLeavesProcessedFiles ==
    [][(/\ last'.op = "process_new_file"
        /\ last'.event
        /\ last'.returned
        /\ (~last'.validation.valid \/ Raised(last') # {})) =>
          last'.src \notin processed_files']_vars

(***************************************************************************)
(* Specification of the hash registry under concurrent callers: archived   *)
(* reports are recorded by callers of record_processed_file that run at    *)
(* the same time, each reading processed_hashes.json and writing it back   *)
(* in two separate file operations.                                        *)
(***************************************************************************)

\* record_processed_file up to and including `processed_hashes[file_hash] =
\* file_path.name`: the hash is computed, the registry file is read and the
\* entry is set in the caller's copy.
BeginRecord(p, file_path, processing_result) ==
    /\ recorders[p].pc = "idle"
    /\ file_path.dir \in {ProcessedDir(d) : d \in Days}
    /\ Exists(disk, file_path)
    /\ LET file_hash == calculate_file_hash(disk, file_path)
       IN  /\ file_hash # NoHash
           /\ recorders' = [recorders EXCEPT ![p] =
                  [pc                |-> "loaded",
                   file_path         |-> file_path,
                   file_hash         |-> file_hash,
                   processing_result |-> processing_result,
                   processed_hashes  |-> (file_hash :> file_path.name) @@ disk.processed_hashes]]
    /\ UNCHANGED fsVars
    /\ UNCHANGED classVars
    /\ UNCHANGED escVars
    /\ UNCHANGED <<recVars, qaVars, monVars, dashVars>>

\* The rest of record_processed_file: the caller's copy of the registry is
\* written to processed_hashes.json and the metadata record is written.
FinishRecord(p) ==
    /\ recorders[p].pc = "loaded"
    /\ LET call == recorders[p]
           processing_metadata ==
               [filename             |-> call.file_path.name,
                file_hash            |-> call.file_hash,
                file_size            |-> IF Exists(disk, call.file_path)
                                         THEN Entry(disk, call.file_path).data.size_bytes ELSE 0,
                processing_timestamp |-> isoformat(now),
                processing_result    |-> call.processing_result,
                alert_level          |-> call.processing_result.alert_level]
           stem == [base |-> call.file_path.name.base, counters |-> call.file_path.name.counters]
       IN  /\ disk' = [disk EXCEPT !.processed_hashes = call.processed_hashes,
                                   !.metadata = (stem :> processing_metadata) @@ @]
           /\ last' = [op |-> "record_processed_file", src |-> call.file_path,
                       result |-> call.processing_result, repeat |-> FALSE, recorder |-> p]
    /\ recorders' = [recorders EXCEPT ![p] = NotRecording]
    /\ UNCHANGED <<today, processed_count, error_count, born>>
    /\ UNCHANGED classVars
    /\ UNCHANGED escVars
    /\ UNCHANGED <<recVars, qaVars, monVars, dashVars>>

NextRegistry ==
    \/ \E name \in IncomingNames, data \in WellFormedContents : Submit(name, data)
    \/ \E name \in IncomingNames : ProcessNewFile(name, AllProcessorsOk)
    \/ \E name \in StoredNames : MoveToProcessed(name, "green")
    \/ \E p \in Recorders, day \in Days, name \in StoredNames :
           BeginRecord(p, Path(ProcessedDir(day), name), [alert_level |-> "GREEN"])
    \/ \E p \in Recorders : FinishRecord(p)

SpecRegistry == InitIngest /\ [][NextRegistry]_vars

\* C20: no update to the hash registry is lost: whatever the interleaving of
\* the calls of record_processed_file, once a call has completed (its
\* metadata record is written) and no call is under way, the registry holds
\* an entry for the hash it recorded.
C20_NoRegistryUpdateLost ==
    (\A p \in Recorders : recorders[p].pc = "idle") =>
        \A stem \in DOMAIN disk.metadata :
            disk.metadata[stem].file_hash \in DOMAIN disk.processed_hashes

(***************************************************************************)
(* Emergency dashboard (src/src/dashboard/emergency_dashboard.py): a       *)
(* Streamlit script that run() executes from the top on every page load,   *)
(* click and st.rerun().  Times are in seconds.                            *)
(***************************************************************************)

MaxViewMinutes == 5  \* minutes the dashboard stays open

NoResponse == -1                   \* response_time None

\* generate_sample_alerts: the four demonstration alerts, stamped relative to
\* datetime.now().  response_time (minutes in the code) is kept in seconds.
generate_sample_alerts(clock) ==
    << [alert_id |-> "ALERT_001", timestamp |-> clock - 5 * SecondsPerMinute,
        severity |-> "RED", acknowledged |-> FALSE, response_time |-> NoResponse],
       [alert_id |-> "ALERT_002", timestamp |-> clock - 12 * SecondsPerMinute,
        severity |-> "RED", acknowledged |-> TRUE, response_time |-> 192],
       [alert_id |-> "ALERT_003", timestamp |-> clock - 25 * SecondsPerMinute,
        severity |-> "ORANGE", acknowledged |-> TRUE, response_time |-> 510],
       [alert_id |-> "ALERT_004", timestamp |-> clock - 35 * SecondsPerMinute,
        severity |-> "YELLOW", acknowledged |-> TRUE, response_time |-> 720] >>

NoClick == [widget |-> "none"]
RefreshClick == [widget |-> "refresh"]
AcknowledgeClick(alert_id) == [widget |-> "ack", alert_id |-> alert_id]

\* The alerts display_critical_alerts renders with an Acknowledge button.
critical_alerts(alert_list) ==
    {k \in 1..Len(alert_list) :
        alert_list[k].severity = "RED" /\ ~alert_list[k].acknowledged}

\* display_critical_alerts: the button of a rendered alert that was pressed
\* marks the alert in the list and asks for a rerun.
display_critical_alerts(alert_list, click, clock) ==
    LET pressed == {k \in critical_alerts(alert_list) :
                       click.widget = "ack" /\ click.alert_id = alert_list[k].alert_id}
    IN  [alerts |-> [k \in 1..Len(alert_list) |->
                        IF k \in pressed
                        THEN [alert_list[k] EXCEPT
                                 !.acknowledged = TRUE,
                                 !.response_time = clock - alert_list[k].timestamp]
                        ELSE alert_list[k]],
         rerun  |-> pressed # {}]

\* run, as one execution of the script for the widget that was pressed and
\* the executions st.rerun() starts after it (in which no widget is pressed).
RECURSIVE run(_, _, _)
run(session_state, click, clock) ==
    IF click.widget = "refresh"
    THEN run([session_state EXCEPT !.last_refresh = clock], NoClick, clock)
    ELSE LET generated == generate_sample_alerts(clock)
             shown == display_critical_alerts(generated, click, clock)
             stored == [session_state EXCEPT !.alerts = shown.alerts]
         IN  IF shown.rerun THEN run(stored, NoClick, clock) ELSE stored

\* The page is loaded, or the script reruns with no button pressed.
RunDashboard ==
    /\ session' = run(session, NoClick, now)
    /\ UNCHANGED acknowledgements
    /\ UNCHANGED <<classVars, escVars, fsVars, recVars, qaVars, monVars, regVars>>

\* The Refresh button of the header is pressed.
Refresh ==
    /\ session.alerts # <<>>
    /\ session' = run(session, RefreshClick, now)
    /\ UNCHANGED acknowledgements
    /\ UNCHANGED <<classVars, escVars, fsVars, recVars, qaVars, monVars, regVars>>

\* The Acknowledge button the page shows for an alert is pressed.
PressAcknowledge(k) ==
    /\ k \in critical_alerts(session.alerts)
    /\ session' = run(session, AcknowledgeClick(session.alerts[k].alert_id), now)
    /\ acknowledgements' = (session.alerts[k].alert_id :> now) @@ acknowledgements
    /\ UNCHANGED <<classVars, escVars, fsVars, recVars, qaVars, monVars, regVars>>

\* A minute passes while the dashboard is open.
ViewMinutePasses ==
    /\ now < MaxViewMinutes * SecondsPerMinute
    /\ now' = now + SecondsPerMinute
    /\ UNCHANGED <<alerts, query>>
    /\ UNCHANGED <<classVars, fsVars, otherVars>>

NextDashboard ==
    \/ RunDashboard
    \/ Refresh
    \/ \E k \in 1..Len(session.alerts) : PressAcknowledge(k)
    \/ ViewMinutePasses

SpecDashboard == InitIngest /\ [][NextDashboard]_vars

\* C27: an alert whose Acknowledge button was pressed is acknowledged in the
\* alert list from then on, through every later run of the page, and the
\* time of the acknowledgement recorded for it (its timestamp plus its
\* response time) stays the time the button was pressed.
C27_AcknowledgedStaysAcknowledged ==
    \A alert_id \in DOMAIN acknowledgements :
        \E k \in 1..Len(session.alerts) :
            /\ session.alerts[k].alert_id = alert_id
            /\ session.alerts[k].acknowledged
            /\ session.alerts[k].timestamp + session.alerts[k].response_time
                   = acknowledgements[alert_id]

(***************************************************************************)
(* Event handler tasks (RadiologyFileHandler) and the calls of             *)
(* FileMonitor._process_new_file as coroutines of one event loop: a step   *)
(* is what a coroutine does between two of its awaits.                     *)
(***************************************************************************)

MaxHandlers == 2     \* tasks create_task starts during a run
MaxChunks == 1       \* times a writer appends to a file of the watch directory

\* str.startswith on the names that occur: the hidden and temporary names are
\* those whose base is written with a leading '.' or '~'.
HiddenBases == {".scan"}
TempBases == {"~scan"}

startswith(name, prefix) ==
    \/ prefix = "." /\ name.base \in HiddenBases
    \/ prefix = "~" /\ name.base \in TempBases

\* RadiologyFileHandler._is_radiology_file
is_radiology_file(processed, file_path) ==
    /\ lower_suffix(file_path.name.suffix) = ".pdf"
    /\ ~(startswith(file_path.name, ".") \/ startswith(file_path.name, "~"))
    /\ file_path \notin processed

\* Mutant: the two size readings are not compared.
size_is_stable_unchecked(initial_size, final_size) == TRUE

\* `initial_size != final_size` of _handle_file_event, negated.
size_is_stable(initial_size, final_size) == initial_size = final_size

\* Mutant: the callback is started whether or not the path is in the set.
not_yet_processed_unchecked(processed, file_path) == TRUE

\* `file_path not in self.processed_files` of _handle_file_event.
not_yet_processed(processed, file_path) == file_path \notin processed

\* _process_new_file from its start to its first await: with every processor
\* still to come back the call stands in `await processor(...)` of the first
\* one, or has returned because the file was not taken into processing/.
UntilFirstAwait == [k \in 1..NumProcessors |-> "hang"]

begin_process_new_file(d, file_path, clock) ==
    process_new_file(d, file_path, UntilFirstAwait, clock)

\* The steps a call of _process_new_file has taken when it reaches its first
\* await or returns, as entries of the history of a document.
steps_taken(done, by, file_path) ==
    <<[step |-> "validate", valid |-> done.validation.valid, by |-> by,
       path |-> file_path]>>
        \o (IF done.path = NoPath THEN <<>>
            ELSE IF done.path.dir = Failed THEN <<[step |-> "move_to_failed"]>>
            ELSE IF done.path.dir = Processing
            THEN <<[step |-> "move_to_processing"]>> ELSE <<>>)
        \o [k \in 1..Len(done.invoked) |->
               [step |-> "processor", k |-> done.invoked[k], path |-> done.path]]

Logged(hist, inode, steps) ==
    [hist EXCEPT !.pipeline =
        (inode :> ((IF inode \in DOMAIN @ THEN @[inode] ELSE <<>>) \o steps)) @@ @]

Completed(hist, calls) == [hist EXCEPT !.completed = @ + calls]

Counted(hist, file_path) ==
    [hist EXCEPT !.callbacks =
        (file_path :> ((IF file_path \in DOMAIN @ THEN @[file_path] ELSE 0) + 1)) @@ @]

\* The call of _process_new_file that is suspended after `done`.
Suspended(done, file_path, inode, caller, clock) ==
    [src       |-> file_path,
     path      |-> done.path,
     inode     |-> inode,
     outcomes  |-> <<>>,
     processor |-> done.invoked[Len(done.invoked)],
     started   |-> clock,
     caller    |-> caller]

\* A writer appends to a file of the watch directory.
WriterAppends(name) ==
    /\ name \in DOMAIN disk.files[Incoming]
    /\ LET entry == disk.files[Incoming][name]
       IN  /\ entry.data.size_bytes + MinFileSize
                  <= born[entry.inode].size_bytes + MaxChunks * MinFileSize
           /\ disk' = [disk EXCEPT !.files[Incoming][name].data.size_bytes = @ + MinFileSize]
    /\ UNCHANGED <<today, processed_count, error_count, born, last>>
    /\ UNCHANGED <<classVars, escVars, otherVars>>

\* on_created / on_modified, called on the thread the event loop runs in:
\* create_task starts a task for the path unless the name filter rejects it.
OnFileEvent(name, event_type) ==
    /\ Len(handlers) < MaxHandlers
    /\ name \in DOMAIN disk.files[Incoming]
    /\ event_type = "modified" =>
           disk.files[Incoming][name].data # born[disk.files[Incoming][name].inode]
    /\ is_radiology_file(processed_files, Path(Incoming, name))
    /\ handlers' = Append(handlers, [pc        |-> "settling",
                                     file_path |-> Path(Incoming, name),
                                     event     |-> event_type,
                                     retries   |-> 0])
    /\ UNCHANGED <<processed_files, awaiting, scan, history>>
    /\ UNCHANGED <<classVars, escVars, fsVars, recVars, qaVars, regVars, dashVars>>

OnCreated(name) == OnFileEvent(name, "created")

OnModified(name) == OnFileEvent(name, "modified")

Returned(task, outcome) ==
    [pc |-> "done", file_path |-> task.file_path, event |-> task.event,
     retries |-> task.retries, outcome |-> outcome]

\* _handle_file_event after `await asyncio.sleep(self.file_settle_time)`: it
\* returns when the file is gone, else reads the size and sleeps 0.5s.
HandlerWakes(h) ==
    /\ h \in 1..Len(handlers)
    /\ handlers[h].pc = "settling"
    /\ LET task == handlers[h]
       IN  handlers' = [handlers EXCEPT ![h] =
               IF ~Exists(disk, task.file_path) THEN Returned(task, "gone")
               ELSE [pc           |-> "measuring",
                     file_path    |-> task.file_path,
                     event        |-> task.event,
                     retries      |-> task.retries,
                     initial_size |-> Entry(disk, task.file_path).data.size_bytes]]
    /\ UNCHANGED <<processed_files, awaiting, scan, history>>
    /\ UNCHANGED <<classVars, escVars, fsVars, recVars, qaVars, regVars, dashVars>>

\* _handle_file_event after `await asyncio.sleep(0.5)`, up to its next await:
\* it returns when the file is gone; when the size has changed it sleeps 2s
\* to try again; else it puts the path in processed_files, unless it is
\* there, and awaits the callback, which runs up to its own first await.
HandlerMeasures(h) ==
    /\ h \in 1..Len(handlers)
    /\ handlers[h].pc = "measuring"
    /\ LET task == handlers[h]
           file_path == task.file_path
       IN  IF ~Exists(disk, file_path)
           THEN /\ handlers' = [handlers EXCEPT ![h] = Returned(task, "gone")]
                /\ UNCHANGED <<processed_files, awaiting, history, fsVars>>
           ELSE IF ~size_is_stable(task.initial_size,
                                   Entry(disk, file_path).data.size_bytes)
           THEN /\ handlers' = [handlers EXCEPT ![h] =
                       [pc |-> "retrying", file_path |-> file_path, event |-> task.event,
                        retries |-> task.retries + 1]]
                /\ UNCHANGED <<processed_files, awaiting, history, fsVars>>
           ELSE IF ~not_yet_processed(processed_files, file_path)
           THEN /\ handlers' = [handlers EXCEPT ![h] = Returned(task, "duplicate")]
                /\ UNCHANGED <<processed_files, awaiting, history, fsVars>>
           ELSE LET done == begin_process_new_file(disk, file_path, now)
                    inode == Entry(disk, file_path).inode
                IN  /\ processed_files' = processed_files \cup {file_path}
                    /\ disk' = done.disk
                    /\ processed_count' = processed_count + done.processed
                    /\ error_count' = error_count + done.errors
                    /\ last' = [op         |-> "process_new_file",
                                src        |-> file_path,
                                dst        |-> done.path,
                                inode      |-> inode,
                                validation |-> done.validation,
                                invoked    |-> done.invoked,
                                outcomes   |-> UntilFirstAwait,
                                returned   |-> done.returned,
                                event      |-> TRUE,
                                retries    |-> task.retries]
                    /\ history' = Completed(
                                      Counted(Logged(history, inode,
                                                     steps_taken(done, "event", file_path)),
                                              file_path),
                                      IF done.returned THEN 1 ELSE 0)
                    /\ IF done.returned
                       THEN /\ handlers' = [handlers EXCEPT ![h] = Returned(task, "handed")]
                            /\ UNCHANGED awaiting
                       ELSE /\ handlers' = [handlers EXCEPT ![h] =
                                   [pc |-> "callback", file_path |-> file_path,
                                    event |-> task.event, retries |-> task.retries]]
                            /\ awaiting' = awaiting \cup
                                   {Suspended(done, file_path, inode,
                                              [task |-> "handler", h |-> h], now)}
                    /\ UNCHANGED <<today, born>>
    /\ UNCHANGED scan
    /\ UNCHANGED <<classVars, escVars, recVars, qaVars, regVars, dashVars>>

\* _handle_file_event after `await asyncio.sleep(2)`: it calls itself, which
\* begins with the settle sleep.
HandlerRetries(h) ==
    /\ h \in 1..Len(handlers)
    /\ handlers[h].pc = "retrying"
    /\ handlers' = [handlers EXCEPT ![h] =
           [pc |-> "settling", file_path |-> @.file_path, event |-> @.event,
            retries |-> @.retries]]
    /\ UNCHANGED <<processed_files, awaiting, scan, history>>
    /\ UNCHANGED <<classVars, escVars, fsVars, recVars, qaVars, regVars, dashVars>>

HandlerStep(h) == HandlerWakes(h) \/ HandlerMeasures(h) \/ HandlerRetries(h)

\* The processor a call of _process_new_file started by a handler task is
\* suspended in returns or raises: the next processor is awaited, or, after
\* the last one, processed_count is incremented, the call returns and the
\* task ends.
HandlerProcessorFinishes(call, outcome) ==
    /\ call \in awaiting
    /\ call.caller.task = "handler"
    /\ IF call.processor < NumProcessors
       THEN /\ awaiting' = (awaiting \ {call})
                               \cup {[call EXCEPT !.processor = @ + 1]}
            /\ history' = Logged(history, call.inode,
                              <<[step |-> "processor", k |-> call.processor + 1,
                                 path |-> call.path]>>)
            /\ UNCHANGED <<processed_count, handlers>>
       ELSE /\ awaiting' = awaiting \ {call}
            /\ processed_count' = processed_count + 1
            /\ handlers' = [handlers EXCEPT ![call.caller.h] = Returned(@, "handed")]
            /\ history' = Completed(history, 1)
    /\ UNCHANGED <<disk, today, error_count, born, last, processed_files, scan>>
    /\ UNCHANGED <<classVars, escVars, recVars, qaVars, regVars, dashVars>>

NextHandler ==
    \/ \E name \in IncomingNames, data \in MonitoredContents : Submit(name, data)
    \/ \E name \in IncomingNames : WriterAppends(name)
    \/ \E name \in IncomingNames : OnCreated(name)
    \/ \E name \in IncomingNames : OnModified(name)
    \/ \E h \in 1..MaxHandlers : HandlerWakes(h)
    \/ \E h \in 1..MaxHandlers : HandlerMeasures(h)
    \/ \E h \in 1..MaxHandlers : HandlerRetries(h)
    \/ \E call \in awaiting, outcome \in {"ok", "raise"} :
           HandlerProcessorFinishes(call, outcome)

SpecHandler == InitIngest /\ [][NextHandler]_vars

\* C21: whatever the interleaving of the handler tasks of a path, the
\* callback is started at most once for the path while the path is in
\* processed_files, and only for a path that is put there in the same step.
C21_CallbackStartedOncePerPath ==
    /\ \A file_path \in DOMAIN history.callbacks :
           file_path \in processed_files /\ history.callbacks[file_path] = 1
    /\ \A file_path \in processed_files : file_path \in DOMAIN history.callbacks
    /\ \A call \in awaiting : call.caller.task = "handler" =>
           Cardinality({other \in awaiting :
               other.caller.task = "handler"
               /\ handlers[other.caller.h].file_path
                      = handlers[call.caller.h].file_path}) = 1

\* Two tasks were started for the same path and both found a settled file
\* there: one started the callback, the other found the path in the set.
C21_Witness ==
    \E h1, h2 \in 1..Len(handlers) :
        /\ h1 # h2
        /\ handlers[h1].file_path = handlers[h2].file_path
        /\ handlers[h1].pc \in {"callback", "done"}
        /\ handlers[h1].pc = "done" => handlers[h1].outcome = "handed"
        /\ handlers[h2].pc = "done"
        /\ handlers[h2].outcome = "duplicate"
        /\ history.callbacks[handlers[h1].file_path] = 1

\* The event loop runs every task that is ready: a task of the handler that
\* is in one of its sleeps is resumed.
SpecHandlerFair ==
    SpecHandler /\ \A h \in 1..MaxHandlers : WF_vars(HandlerStep(h))

\* The size the file of a task has now differs from the task's first reading.
SizeChanged(task) ==
    /\ Exists(disk, task.file_path)
    /\ Entry(disk, task.file_path).data.size_bytes # task.initial_size

WatchedNames ==
    IncomingNames
        \cup {FileName(b) : b \in HiddenBases}
        \cup {[FileName(b) EXCEPT !.suffix = ".txt"] : b \in Bases}

\* self.watch_dir.glob("*.pdf"): the names that end in ".pdf" as written,
\* a leading '.' or '~' included.
glob_pdf(listing) == {name \in DOMAIN listing : name.suffix = ".pdf"}

\* The orders in which glob can yield a set of names.
Orders(names) ==
    {order \in [1..Cardinality(names) -> names] :
        \A i, j \in 1..Cardinality(names) : order[i] = order[j] => i = j}

\* _process_new_file when the file is deleted by its writer between
\* validate_file and the move: the move raises and the `except` branch runs.
process_new_file_losing_file(d, file_path, clock) ==
    LET validation == validate_file(d, file_path)
        gone == [d EXCEPT !.files[file_path.dir] = Remove(@, file_path.name)]
    IN  process_new_file_except(gone, file_path, validation,
                                <<"No such file or directory">>, clock)

\* The record of the call of _process_new_file the scan made for file_path.
ScanCall(file_path, inode, done) ==
    [op         |-> "process_new_file",
     src        |-> file_path,
     dst        |-> done.path,
     inode      |-> inode,
     validation |-> done.validation,
     invoked    |-> done.invoked,
     outcomes   |-> <<>>,
     returned   |-> done.returned,
     event      |-> FALSE]

\* Where the scan stands after the call `done` for the first file of its list.
Scanned(progress, file_path, exists, inode, done, clock) ==
    [disk      |-> done.disk,
     errors    |-> progress.errors + done.errors,
     history   |-> Completed(IF exists
                             THEN Logged(progress.history, inode,
                                         steps_taken(done, "scan", file_path))
                             ELSE progress.history,
                             IF done.returned THEN 1 ELSE 0),
     last      |-> ScanCall(file_path, inode, done),
     pdf_files |-> Tail(progress.pdf_files),
     calls     |-> IF done.returned THEN {}
                   ELSE {Suspended(done, file_path, inode, [task |-> "scan"], clock)}]

\* _process_new_file as the scan calls it for a file of its list.
scan_process_new_file(d, file_path, lost, clock) ==
    IF Exists(d, file_path) /\ file_path.name \in lost
    THEN process_new_file_losing_file(d, file_path, clock)
    ELSE begin_process_new_file(d, file_path, clock)

\* The `for pdf_file in pdf_files` loop of _process_existing_files from the
\* point `progress` stands at up to its next await: the files are handed to
\* _process_new_file in turn until a call is suspended in a processor or the
\* list is used up.  lost names the files deleted during their call.
RECURSIVE process_existing_files(_, _, _)
process_existing_files(progress, lost, clock) ==
    IF progress.pdf_files = <<>> THEN progress
    ELSE LET file_path == Path(Incoming, Head(progress.pdf_files))
             exists == Exists(progress.disk, file_path)
             inode == IF exists THEN Entry(progress.disk, file_path).inode ELSE 0
             after == Scanned(progress, file_path, exists, inode,
                              scan_process_new_file(progress.disk, file_path, lost, clock),
                              clock)
         IN  IF after.calls = {} THEN process_existing_files(after, lost, clock) ELSE after

\* The state of start_monitoring after the scan has progress up to `progress`.
Scanning(progress) ==
    /\ disk' = progress.disk
    /\ error_count' = error_count + progress.errors
    /\ history' = progress.history
    /\ last' = progress.last
    /\ awaiting' = awaiting \cup progress.calls
    /\ scan' = [pc        |-> IF progress.calls = {} THEN "live" ELSE "scanning",
                pdf_files |-> progress.pdf_files,
                observer  |-> "running"]

\* start_monitoring up to its first await: the observer thread is started
\* and the scan of the existing files begins.
StartMonitoring ==
    /\ scan.pc = "stopped"
    /\ \E pdf_files \in Orders(glob_pdf(disk.files[Incoming])),
          lost \in SUBSET glob_pdf(disk.files[Incoming]) :
           LET started == [disk |-> disk, errors |-> 0, history |-> history,
                           last |-> [op |-> "start_monitoring"],
                           pdf_files |-> pdf_files, calls |-> {}]
               progress == process_existing_files(started, lost, now)
           IN  Scanning(progress)
    /\ UNCHANGED <<today, processed_count, born, processed_files, handlers>>
    /\ UNCHANGED <<classVars, escVars, recVars, qaVars, regVars, dashVars>>

\* The processor the scan's call of _process_new_file is suspended in returns
\* or raises: the next processor is awaited, or, after the last one,
\* processed_count is incremented, the call returns and the scan goes on.
ScanProcessorFinishes(call, outcome) ==
    /\ call \in awaiting
    /\ call.caller.task = "scan"
    /\ LET outcomes == Append(call.outcomes, outcome)
       IN  IF call.processor < NumProcessors
           THEN /\ awaiting' = (awaiting \ {call})
                       \cup {[call EXCEPT !.processor = @ + 1, !.outcomes = outcomes]}
                /\ history' = Logged(history, call.inode,
                                  <<[step |-> "processor", k |-> call.processor + 1,
                                     path |-> call.path]>>)
                /\ UNCHANGED <<disk, processed_count, error_count, last, scan>>
           ELSE /\ processed_count' = processed_count + 1
                /\ \E lost \in SUBSET Range(scan.pdf_files) :
                       LET returned == [op         |-> "process_new_file",
                                        src        |-> call.src,
                                        dst        |-> call.path,
                                        inode      |-> call.inode,
                                        invoked    |-> [k \in 1..NumProcessors |-> k],
                                        outcomes   |-> outcomes,
                                        returned   |-> TRUE,
                                        event      |-> FALSE]
                           resumed == [disk |-> disk, errors |-> 0,
                                       history |-> Completed(history, 1),
                                       last |-> returned,
                                       pdf_files |-> scan.pdf_files, calls |-> {}]
                           progress == process_existing_files(resumed, lost, now)
                       IN  /\ disk' = progress.disk
                           /\ error_count' = error_count + progress.errors
                           /\ history' = progress.history
                           /\ last' = progress.last
                           /\ awaiting' = (awaiting \ {call}) \cup progress.calls
                           /\ scan' = [scan EXCEPT
                                  !.pc = IF progress.calls = {} THEN "live" ELSE "scanning",
                                  !.pdf_files = progress.pdf_files]
    /\ UNCHANGED <<today, born, processed_files, handlers>>
    /\ UNCHANGED <<classVars, escVars, recVars, qaVars, regVars, dashVars>>

\* The observer thread dispatches a created or modified event to the handler:
\* for a name the filter lets through, on_created / on_modified call
\* asyncio.create_task on a thread that runs no event loop, which raises
\* RuntimeError; no task is created and the exception ends the thread.
ObserverDispatches(name) ==
    /\ scan.observer = "running"
    /\ name \in DOMAIN disk.files[Incoming]
    /\ scan' = IF is_radiology_file(processed_files, Path(Incoming, name))
               THEN [scan EXCEPT !.observer = "failed"]
               ELSE scan
    /\ UNCHANGED <<processed_files, awaiting, handlers, history>>
    /\ UNCHANGED <<classVars, escVars, fsVars, recVars, qaVars, regVars, dashVars>>

\* A client of the filesystem manager archives a file of processing/.
Archive(name, alert_level) ==
    /\ name \in DOMAIN disk.files[Processing]
    /\ LET file_path == Path(Processing, name)
           moved == move_to_processed(disk, file_path, alert_level, today)
           inode == Entry(disk, file_path).inode
       IN  /\ disk' = moved.disk
           /\ last' = [op          |-> "move_to_processed",
                       src         |-> file_path,
                       dst         |-> moved.path,
                       inode       |-> inode,
                       alert_level |-> alert_level]
           /\ history' = Logged(history, inode, <<[step |-> "move_to_processed"]>>)
    /\ UNCHANGED <<today, processed_count, error_count, born>>
    /\ UNCHANGED <<processed_files, awaiting, handlers, scan>>
    /\ UNCHANGED <<classVars, escVars, recVars, qaVars, regVars, dashVars>>

NextStartup ==
    \/ \E name \in WatchedNames, data \in MonitoredContents : Submit(name, data)
    \/ StartMonitoring
    \/ \E call \in awaiting, outcome \in {"ok", "raise"} :
           ScanProcessorFinishes(call, outcome)
    \/ \E name \in WatchedNames : ObserverDispatches(name)
    \/ \E name \in StoredNames : Archive(name, "green")

SpecStartup == InitIngest /\ [][NextStartup]_vars

\* The validations recorded in the history: the calls of _process_new_file
\* that were made, with the path each was made for and who made it.
Validations ==
    {entry \in UNION {Range(history.pipeline[inode]) : inode \in DOMAIN history.pipeline} :
        entry.step = "validate"}

\* C22: a file the startup scan feeds to the pipeline goes the way of a live
\* event: its name passes the handler's name filter and its path is put in
\* processed_files; each file is fed once; and no task of the event handler
\* runs while the scan is under way.
C22_StartupScanUsesLivePipeline ==
    /\ \A entry \in Validations :
           entry.by = "scan" =>
               /\ is_radiology_file({}, entry.path)
               /\ entry.path \in processed_files
    /\ \A inode \in DOMAIN history.pipeline :
           Cardinality({k \in 1..Len(history.pipeline[inode]) :
                           history.pipeline[inode][k].step = "validate"}) = 1
    /\ scan.pc = "scanning" => handlers = <<>>

\* C23: no file whose name starts with '.' or '~' and no file whose
\* extension is not .pdf is validated (and so none is moved or dispatched),
\* by an event or by the startup scan.
C23_HiddenAndNonPdfNeverProcessed ==
    \A entry \in Validations :
        /\ ~startswith(entry.path.name, ".")
        /\ ~startswith(entry.path.name, "~")
        /\ lower_suffix(entry.path.name.suffix) = ".pdf"

\* The steps of `steps` that precede its k-th step.
Before(steps, k) == {steps[j] : j \in 1..(k - 1)}

C26_NothingLeftInProcessing ==
    \A name \in DOMAIN disk.files[Processing] :
        \E call \in awaiting :
            call.inode = Entry(disk, Path(Processing, name)).inode

\* The call is suspended in the last processor in this state and has
\* returned in the next one.
Returns(call) ==
    /\ call \in awaiting
    /\ call.processor = NumProcessors
    /\ \A other \in awaiting' : other.inode # call.inode

\* C28: every call of _process_new_file that has completed added one to
\* exactly one of processed_count and error_count, so the two counters add
\* up to the number of completed calls; and a call returning from its last
\* processor adds one to processed_count whatever the processors did, all
\* of them raising included.
C28_CountersAddUpToCompletedCalls ==
    /\ [](processed_count + error_count = history.completed)
    /\ [][/\ processed_count' >= processed_count
          /\ error_count' >= error_count
          /\ \A call \in awaiting :
                 Returns(call) => processed_count' = processed_count + 1]_vars

\* A call whose processors all raised has returned and was counted as
\* processed, after another call had failed and was counted as an error.
C28_Witness ==
    /\ last.op = "process_new_file"
    /\ last.returned
    /\ last.invoked = [k \in 1..NumProcessors |-> k]
    /\ last.outcomes = [k \in 1..NumProcessors |-> "raise"]
    /\ processed_count = 1
    /\ error_count = 1
    /\ history.completed = 2

====
